---- MODULE Spec2Model ----
(***************************************************************************)
(* WASAPI shared-mode streaming sessions of theko-sound:                   *)
(*   src/native/backends/wasapi/wasapi_shared_output.cpp  (OutputContext)  *)
(*   src/native/backends/wasapi/wasapi_shared_input.cpp   (InputContext)   *)
(*                                                                         *)
(* One host object (WASAPISharedOutput or WASAPISharedInput) is modelled,  *)
(* with its native context, the platform resources the context owns, the   *)
(* two manual-reset events, the owner thread that drives                   *)
(* open/start/write/read/drain/close, a second thread that may call stop() *)
(* while the owner is inside write/read/drain, the platform's notification *)
(* thread and the audio engine.                                            *)
(***************************************************************************)
EXTENDS Integers, Sequences, FiniteSets, TLC

(***************************************************************************)
(* Bounds of the model.                                                    *)
(***************************************************************************)
\* frames of the endpoint buffer the platform reports from GetBufferSize
BufFrames == 2
\* largest byte length handed to write/read
MaxLen == 4
\* largest byte offset handed to write/read
MaxOff == 1
\* cap of the pending-frames counter (guards the start of a write)
MaxPending == 2
\* cap of the notification log queue (guards the callbacks)
MaxLogs == 2
\* most endpoints of one direction the platform has
MaxEndpoints == 2

\* nBlockAlign of the negotiated format (16-bit mono), bytes per frame
FrameSizes == {2}

Kinds == {"output", "input"}

\* the platform resources a context can own; "render" is the render client
\* of an output session and the capture client of an input session;
\* "format" is the WAVEFORMATEX block of the session: the block allocated
\* for the request or, once adopted, the closest match of the platform
Res == {"device", "format", "client", "render", "clock", "evReady", "evStop",
        "enumerator", "notifier"}

\* what IMMDevice::GetState reports for the bound device
DevStates == {"active", "unplugged"}

VARIABLES
    kind,             \* which host class the object is: "output" or "input"
    ctxPtr,           \* the host object's context handle field (0 = null)
    ctxAlive,         \* the context object exists on the heap
    fld,              \* the context's non-null pointer/handle fields
    live,             \* platform resources acquired and not yet released
    overFreed,        \* resources released again after their last release
    notifierRef,      \* DeviceChangeNotifier::refCount
    registered,       \* the notifier is registered with the platform
    bufferFrameCount, \* context->bufferFrameCount
    bytesPerFrame,    \* context->bytesPerFrame
    pendingFrames,    \* context->pendingFrames (output)
    notifierLogs,     \* length of context->notifierLogs
    readyEvent,       \* events[0] is signaled (buffer/data ready)
    stopEvent,        \* events[1] is signaled (stop request)
    running,          \* the audio client's stream is started
    padding,          \* frames queued in the endpoint buffer
    devState,         \* state of the bound device
    invalidated,      \* the client answers AUDCLNT_E_DEVICE_INVALIDATED
    held,             \* who holds an acquired buffer region: none/write/stop
    pc,               \* position of the owner thread
    spc,              \* position of the thread inside nStop
    wOff,             \* offset argument of the running write/read
    wLen,             \* length argument of the running write/read
    framesWritten,    \* local of nWrite
    framesToWrite,    \* local of nWrite's loop body
    availableFrames,  \* local of nWrite's loop body
    totalBytesRead,   \* local of nRead
    raisedInCall,     \* stop-requested was raised during the running call
                      \* while frames were still outstanding
    lastOp,           \* the last call the owner thread made
    ret,              \* its return value
    err,              \* the exception it left pending ("none" if none)
    calls,            \* platform calls made by the last open/close, in order
    stopBy,           \* who raised stop-requested first: none/stop/notify
    uaf,              \* a deleted context or released interface was used
    nCloses,          \* close() calls since the last open (saturating)
    fpc,              \* position of nOpen in its format negotiation
    request,          \* the AudioFormat handed to nOpen (jformat)
    bufferSize,       \* the buffer size in bytes handed to nOpen
    format,           \* nOpen's local `format', stored as context->format
    closestFormat,    \* what IsFormatSupported stored in closestFormat
    hrFormat,         \* status of IsFormatSupported
    bufferSizeInFrames, \* local of nOpen
    deviceFrames,     \* the buffer size the audio client was initialized with
    hrBufferSize,     \* status of IAudioClient::GetBufferSize in nOpen
    result,           \* the AudioFormat nOpen returns
    logQueue,         \* contents of context->notifierLogs
    logMutex,         \* holder of the context's logMutex
    npc,              \* position of the notification thread in an append
    nmsg,             \* the message it is appending
    lpc,              \* position of the owner thread in popLog
    slotGiven,        \* nIsFormatSupported: atomicClosestFormat is not null
    slot,             \* what the AtomicReference atomicClosestFormat holds
    slotBefore,       \* what it held when nIsFormatSupported was called
    supported,        \* the jboolean nIsFormatSupported returned
    gpc,              \* position of nGetAllPorts
    renderDevices,    \* the collection getDevicesList gave for eRender
    captureDevices,   \* the collection getDevicesList gave for eCapture
    portArray,        \* the AudioPort array `result' of nGetAllPorts
    index,            \* nGetAllPorts: next element of the array to set
    itemNo,           \* nGetAllPorts: the loop counter i over a collection
    exceptionPending, \* a Java exception thrown in nGetAllPorts is pending
    apc,              \* nAvailable at 32 bits: position in the call
    frameCount32,     \* context->bufferFrameCount, as a 32-bit word
    padding32,        \* the padding GetCurrentPadding stored, 32 bits
    hrPadding,        \* the HRESULT of GetCurrentPadding
    available,        \* the jint nAvailable returned
    cpc,              \* input nRead / nAvailable: position in the call
    captureQueue,     \* packets queued in the endpoint buffer, oldest first
    produced,         \* packets the engine has captured so far
    packet,           \* the region GetBuffer handed out: pData, packetLength, flags
    dest,             \* the caller's byte array
    destOffset,       \* nRead: destOffset
    remainingBytes,   \* nRead: remainingBytes
    bytesRead,        \* nRead: totalBytesRead
    bytesToCopy,      \* nRead: bytesToCopy of the current iteration
    captured          \* the jint nRead or the input's nAvailable returned

\* the context, its fields and what they own
resVars == <<ctxPtr, ctxAlive, fld, live, overFreed, notifierRef, registered,
             bufferFrameCount, bytesPerFrame>>

\* the stream behind the context
streamVars == <<pendingFrames, notifierLogs, readyEvent, stopEvent, running,
                padding, held>>

envVars == <<devState, invalidated>>

\* locals of the owner thread's running call
loopVars == <<wOff, wLen, framesWritten, framesToWrite, availableFrames,
              totalBytesRead, raisedInCall>>

resultVars == <<lastOp, ret, err, calls>>

ghostVars == <<stopBy, uaf, nCloses>>

\* the format negotiation of nOpen, step by step
formatVars == <<fpc, request, bufferSize, format, closestFormat, hrFormat,
                bufferSizeInFrames, deviceFrames, hrBufferSize, result>>

\* the notification queue, message by message, and its mutex
logVars == <<logQueue, logMutex, npc, nmsg, lpc>>

\* nIsFormatSupported of the backend
supportVars == <<slotGiven, slot, slotBefore, supported>>

\* nGetAllPorts of the backend
portVars == <<gpc, renderDevices, captureDevices, portArray, index, itemNo,
              exceptionPending>>

\* nAvailable of the output, with the width of its integers
availVars == <<apc, frameCount32, padding32, hrPadding, available>>

\* nRead and nAvailable of the input, byte by byte
captureVars == <<cpc, captureQueue, produced, packet, dest, destOffset,
                 remainingBytes, bytesRead, bytesToCopy, captured>>

auxVars == <<formatVars, logVars, supportVars, portVars, availVars,
             captureVars>>

vars == <<kind, resVars, streamVars, envVars, pc, spc, loopVars, resultVars,
          ghostVars, auxVars>>

\* a null pointer to a format
Null == [null |-> TRUE]

Min(a, b) == IF a < b THEN a ELSE b

(***************************************************************************)
(* Reference counting and release of platform resources.                   *)
(***************************************************************************)
\* a heap is [live, over, nref, calls]; Release(h, r) is r->Release(),
\* CoTaskMemFree(r) or CloseHandle(r): every resource but the notifier has
\* one reference, the notifier is destroyed when its count reaches zero
Release(h, r) ==
    LET logged == [h EXCEPT !.calls = Append(@, r)] IN
    IF r = "notifier" /\ h.nref > 1
    THEN [logged EXCEPT !.nref = @ - 1]
    ELSE IF r \in h.live
    THEN [logged EXCEPT !.live = @ \ {r},
                        !.nref = IF r = "notifier" THEN 0 ELSE @]
    ELSE [logged EXCEPT !.over = @ \cup {r}]

RECURSIVE ReleaseFields(_, _, _)
\* releases, in the order of `order', the resources that are non-null fields
ReleaseFields(h, order, fields) ==
    IF order = <<>> THEN h
    ELSE LET r == Head(order)
             h1 == IF r \in fields THEN Release(h, r) ELSE h
         IN ReleaseFields(h1, Tail(order), fields)

\* order of the releases in cleanupAndThrowError
CleanupOrder == <<"notifier", "enumerator", "render", "clock", "client",
                  "device", "format", "evReady", "evStop">>

\* order of the releases in ~OutputContext / ~InputContext
DtorOrder == <<"notifier", "enumerator", "format", "render", "clock",
               "client", "device", "evReady", "evStop">>

\* delete ctx: the destructor releases every field that is still non-null
DeleteContext(h, fields) ==
    LET h1 == ReleaseFields(h, DtorOrder, fields)
    IN [h1 EXCEPT !.calls = Append(@, "delete")]

\* cleanupAndThrowError(ctx): releases the non-null fields without clearing
\* them, then deletes the context
CleanupAndThrow(h, fields) ==
    DeleteContext(ReleaseFields(h, CleanupOrder, fields), fields)

(***************************************************************************)
(* Construction.                                                           *)
(***************************************************************************)
Init ==
    /\ kind \in Kinds
    /\ ctxPtr = 0
    /\ ctxAlive = FALSE
    /\ fld = {}
    /\ live = {}
    /\ overFreed = {}
    /\ notifierRef = 0
    /\ registered = FALSE
    /\ bufferFrameCount = 0
    /\ bytesPerFrame = 0
    /\ pendingFrames = 0
    /\ notifierLogs = 0
    /\ readyEvent = FALSE
    /\ stopEvent = FALSE
    /\ running = FALSE
    /\ padding = 0
    /\ devState = "active"
    /\ invalidated = FALSE
    /\ held = "none"
    /\ pc = "idle"
    /\ spc = "idle"
    /\ wOff = 0
    /\ wLen = 0
    /\ framesWritten = 0
    /\ framesToWrite = 0
    /\ availableFrames = 0
    /\ totalBytesRead = 0
    /\ raisedInCall = FALSE
    /\ lastOp = "none"
    /\ ret = 0
    /\ err = "none"
    /\ calls = <<>>
    /\ stopBy = "none"
    /\ uaf = FALSE
    /\ nCloses = 0
    /\ fpc = "idle"
    /\ request = Null
    /\ bufferSize = 0
    /\ format = Null
    /\ closestFormat = Null
    /\ hrFormat = "none"
    /\ bufferSizeInFrames = 0
    /\ deviceFrames = 0
    /\ hrBufferSize = "none"
    /\ result = Null
    /\ logQueue = <<>>
    /\ logMutex = "free"
    /\ npc = "idle"
    /\ nmsg = "none"
    /\ lpc = "idle"
    /\ slotGiven = FALSE
    /\ slot = Null
    /\ slotBefore = Null
    /\ supported = "none"
    /\ gpc = "idle"
    /\ renderDevices = <<>>
    /\ captureDevices = <<>>
    /\ portArray = <<>>
    /\ index = 0
    /\ itemNo = 0
    /\ exceptionPending = FALSE
    /\ apc = "idle"
    /\ frameCount32 = [hi |-> 0, lo |-> 0]
    /\ padding32 = [hi |-> 0, lo |-> 0]
    /\ hrPadding = "S_OK"
    /\ available = 0
    /\ cpc = "idle"
    /\ captureQueue = <<>>
    /\ produced = 0
    /\ packet = Null
    /\ dest = <<>>
    /\ destOffset = 0
    /\ remainingBytes = 0
    /\ bytesRead = 0
    /\ bytesToCopy = 0
    /\ captured = 0

\* the handle field refers to a context that has been deleted
Dangling == ctxPtr # 0 /\ ~ctxAlive

\* the handle field refers to a context
Opened == ctxPtr # 0 /\ ctxAlive

\* the owner thread is between two calls and no stop() is under way
OwnerIdle == pc = "idle" /\ spc = "idle"

\* outcome of a call of the owner thread that has no loop
Result(op, r, e) ==
    /\ lastOp' = op
    /\ ret' = r
    /\ err' = e

\* logNotifierMessages: while (ctx->popLog(log)) logger->debug(log); gives
\* the number of messages left in a queue of n
RECURSIVE LogNotifierMessages(_)
LogNotifierMessages_Skip(n) == n
LogNotifierMessages(n) == IF n = 0 THEN 0 ELSE LogNotifierMessages(n - 1)

(***************************************************************************)
(* nOpen                                                                   *)
(***************************************************************************)
\* the fallible steps of nOpen, in program order; "bufsize" can fail in
\* the input session only (the output session ignores GetBufferSize's status)
StepNo(s) ==
    CASE s = "device"     -> 1
      [] s = "format"     -> 2
      [] s = "activate"   -> 3
      [] s = "fmtquery"   -> 4
      [] s = "initialize" -> 5
      [] s = "render"     -> 6
      [] s = "clock"      -> 7
      [] s = "evReady"    -> 8
      [] s = "evStop"     -> 9
      [] s = "bufsize"    -> 10
      [] s = "result"     -> 11
      [] s = "none"       -> 12

FailSteps(k) ==
    {"none", "device", "format", "activate", "fmtquery", "initialize",
     "render", "clock", "evReady", "evStop", "result"}
    \cup (IF k = "input" THEN {"bufsize"} ELSE {})

\* answers of IAudioClient::IsFormatSupported
FormatAnswers == {"S_OK", "S_FALSE_closest", "S_FALSE_none", "FAILED"}

\* the context's non-null fields when nOpen reaches step failAt
OpenFields(failAt, enumOk, regOk) ==
    LET n == StepNo(failAt) IN
       (IF n > 1 THEN {"device"} ELSE {})
    \cup (IF n > 3 THEN {"client"} ELSE {})
    \cup (IF n > 4 THEN {"format"} ELSE {})
    \cup (IF n > 6 THEN {"render"} ELSE {})
    \cup (IF n > 7 THEN {"clock"} ELSE {})
    \cup (IF n > 8 THEN {"evReady"} ELSE {})
    \cup (IF n > 9 THEN {"evStop"} ELSE {})
    \cup (IF n > 10 /\ enumOk THEN {"enumerator"} ELSE {})
    \cup (IF n > 10 /\ enumOk /\ regOk THEN {"notifier"} ELSE {})

\* the block held only by nOpen's local `format' at step failAt: the
\* request block is allocated at step 2 and stored in the context after
\* step 4 (it, or the closest match that replaces it); before that nOpen
\* frees it only in the branch of step 4 that finds no usable format
OpenLocals(failAt, ans) ==
    LET n == StepNo(failAt) IN
    IF n = 3 \/ (n = 4 /\ ans = "FAILED") THEN {"format"} ELSE {}

\* refCount of the notifier after a successful registration: 1 from the
\* constructor, 1 taken by RegisterEndpointNotificationCallback, 1 from the
\* explicit AddRef
RegisteredRefs == 3

nOpen ==
    /\ OwnerIdle
    /\ ctxPtr = 0
    /\ ~registered
    /\ \E failAt \in FailSteps(kind), ans \in FormatAnswers,
          enumOk \in BOOLEAN, regOk \in BOOLEAN, bpf \in FrameSizes :
        LET n      == StepNo(failAt)
            isReg  == n > 10 /\ enumOk /\ regOk
            fields == OpenFields(failAt, enumOk, regOk)
            h0     == [live  |-> fields \cup OpenLocals(failAt, ans),
                       over  |-> {},
                       nref  |-> IF isReg THEN RegisteredRefs ELSE 0,
                       calls |-> <<>>]
            h      == IF failAt = "none" THEN h0 ELSE CleanupAndThrow(h0, fields)
        IN
        \* the answer of the format query decides whether step 4 fails
        /\ (n = 4) => ans \in {"S_FALSE_none", "FAILED"}
        /\ (n > 4) => ans \in {"S_OK", "S_FALSE_closest"}
        /\ (n < 4) => ans = "S_OK"
        /\ (n <= 10) => (enumOk /\ regOk)
        /\ ~enumOk => regOk
        \* a device that is not active cannot be activated
        /\ (n > 3) => devState = "active"
        /\ ctxAlive' = (failAt = "none")
        \* the handle is stored before the result format is created
        /\ ctxPtr' = IF n >= 11 THEN 1 ELSE 0
        /\ fld' = fields
        /\ live' = h.live
        /\ overFreed' = h.over
        /\ notifierRef' = h.nref
        /\ registered' = isReg
        /\ bufferFrameCount' = IF n > 9 THEN BufFrames ELSE 0
        /\ bytesPerFrame' = IF n > 9 THEN bpf ELSE 0
        /\ Result("open", IF failAt = "none" THEN 1 ELSE 0,
                          IF failAt = "none" THEN "none" ELSE "AudioBackend")
        /\ calls' = h.calls
    /\ pendingFrames' = 0
    /\ notifierLogs' = 0
    /\ readyEvent' = FALSE
    /\ stopEvent' = FALSE
    /\ running' = FALSE
    /\ padding' = 0
    /\ held' = "none"
    /\ invalidated' = FALSE
    /\ stopBy' = "none"
    /\ uaf' = FALSE
    /\ nCloses' = 0
    /\ UNCHANGED <<kind, auxVars, devState, pc, spc, loopVars>>

(***************************************************************************)
(* nClose                                                                  *)
(***************************************************************************)
\* a close that leaves the handle field as it found it
HandleAfterClose_Kept == ctxPtr

\* value nClose stores into the host object's context handle field
HandleAfterClose == 0

\* UnregisterEndpointNotificationCallback: the platform drops its reference
Unregister(h) ==
    [h EXCEPT !.nref = @ - 1, !.calls = Append(@, "Unregister")]

\* the callback is unregistered whenever there is an enumerator
Unregisters_WithEnumerator(fields) == "enumerator" \in fields

\* if (context->deviceEnumerator && context->notificationClient): the
\* condition under which nClose unregisters the callback
Unregisters(fields) == {"enumerator", "notifier"} \subseteq fields

\* the releases of nClose, in program order, each clearing its field; the
\* format block is the only field left for the destructor
CloseHeap(h, fields) ==
    LET h1 == ReleaseFields(h, <<"clock", "render", "client", "device">>, fields)
        h2 == IF Unregisters(fields) THEN Unregister(h1) ELSE h1
        h3 == ReleaseFields(h2, <<"enumerator", "notifier", "evReady", "evStop">>,
                            fields)
    IN DeleteContext(h3, fields \cap {"format"})

SatInc(n) == IF n < 2 THEN n + 1 ELSE n

nClose ==
    /\ OwnerIdle
    /\ nCloses' = SatInc(nCloses)
    /\ UNCHANGED <<kind, auxVars, envVars, spc, loopVars, stopBy>>
    /\ \/ \* context handle is null: "already closed"
          /\ ctxPtr = 0
          /\ Result("close", 0, "none")
          /\ calls' = <<>>
          /\ UNCHANGED <<resVars, streamVars, pc, uaf>>
       \/ /\ Opened
          /\ LET h == CloseHeap([live |-> live, over |-> overFreed,
                                 nref |-> notifierRef, calls |-> <<>>], fld)
             IN /\ live' = h.live
                /\ overFreed' = h.over
                /\ notifierRef' = h.nref
                /\ calls' = h.calls
          /\ registered' = (registered /\ ~Unregisters(fld))
          /\ fld' = fld \cap {"format"}
          /\ ctxAlive' = FALSE
          /\ ctxPtr' = HandleAfterClose
          /\ notifierLogs' = LogNotifierMessages(notifierLogs)
          /\ readyEvent' = FALSE /\ stopEvent' = FALSE
          /\ running' = FALSE /\ padding' = 0 /\ held' = "none"
          /\ Result("close", 0, "none")
          /\ UNCHANGED <<bufferFrameCount, bytesPerFrame, pendingFrames, pc, uaf>>
       \/ \* the handle refers to a deleted context: the reads of its fields
          \* are undefined; the call faults, or finds the stale field values
          \* and releases them again
          /\ Dangling
          /\ \/ /\ pc' = "crashed"
                /\ UNCHANGED <<resVars, streamVars, resultVars, uaf>>
             \/ /\ uaf' = TRUE
                /\ overFreed' = overFreed \cup fld
                /\ ctxPtr' = HandleAfterClose
                /\ Result("close", 0, "none")
                /\ calls' = <<"delete">>
                /\ UNCHANGED <<ctxAlive, fld, live, notifierRef, registered,
                               bufferFrameCount, bytesPerFrame, streamVars, pc>>

\* a call made through a handle that refers to a deleted context: the
\* dereference is undefined; the call faults, or reads stale memory and goes
\* on to use released interfaces
UseDangling(op) ==
    /\ Dangling
    /\ pc = "idle"
    /\ lastOp' = op
    /\ \/ pc' = "crashed" /\ UNCHANGED uaf
       \/ uaf' = TRUE /\ UNCHANGED pc
    /\ UNCHANGED <<kind, auxVars, resVars, streamVars, envVars, spc, loopVars, ret,
                   err, calls, stopBy, nCloses>>

\* a call on a null handle that reports 0 whatever the operation
NotOpened_Zero(op, r) ==
    /\ ctxPtr = 0
    /\ Result(op, 0, "none")
    /\ UNCHANGED <<kind, auxVars, resVars, streamVars, envVars, pc, spc, loopVars,
                   calls, ghostVars>>

\* a call on a host object whose handle is null: "not opened"
NotOpened(op, r) ==
    /\ ctxPtr = 0
    /\ Result(op, r, "none")
    /\ UNCHANGED <<kind, auxVars, resVars, streamVars, envVars, pc, spc, loopVars,
                   calls, ghostVars>>

(***************************************************************************)
(* nGetBufferSize, nGetFramePosition, nGetMicrosecondLatency,              *)
(* nGetCurrentAudioPort                                                    *)
(***************************************************************************)
Queries == {"getBufferSize", "getFramePosition", "getMicrosecondLatency",
            "getCurrentPort"}

\* what a query returns when it fails: -1, and nullptr (0) for the port
QueryFailure(op) == IF op = "getCurrentPort" THEN 0 ELSE -1

\* what a query returns on an opened session: the buffer size in frames;
\* the position and the latency the platform reports, which are not part
\* of the model and stand as 0; a port object (1)
QueryValue(op, hr) ==
    IF op = "getBufferSize" THEN bufferFrameCount
    ELSE IF hr # "S_OK" THEN QueryFailure(op)
    ELSE IF op = "getCurrentPort" THEN 1
    ELSE 0

\* the exception a failed query leaves pending
QueryError(op, hr) ==
    IF op = "getBufferSize" \/ hr = "S_OK" \/ op = "getFramePosition"
    THEN "none" ELSE "AudioBackend"

nQuery ==
    /\ OwnerIdle
    /\ \E op \in Queries :
          \/ NotOpened(op, QueryFailure(op))
          \/ /\ Opened
             /\ \E hr \in {"S_OK", "E_FAIL"} :
                   Result(op, QueryValue(op, hr), QueryError(op, hr))
             /\ UNCHANGED <<kind, auxVars, resVars, streamVars, envVars, pc,
                            spc, loopVars, calls, ghostVars>>
          \/ UseDangling(op)

(***************************************************************************)
(* nStart                                                                  *)
(***************************************************************************)
nStart ==
    /\ OwnerIdle
    /\ \/ NotOpened("start", 0)
       \/ /\ Opened
          \* logNotifierMessages pops every queued message
          /\ notifierLogs' = LogNotifierMessages(notifierLogs)
          \* IAudioClient::Start fails on an invalidated client; the
          \* failure is logged only
          /\ running' = (running \/ ~invalidated)
          /\ Result("start", 0, "none")
          /\ UNCHANGED <<kind, auxVars, resVars, pendingFrames, readyEvent, stopEvent,
                         padding, held, envVars, pc, spc, loopVars, calls,
                         ghostVars>>
       \/ UseDangling("start")

(***************************************************************************)
(* Signals.                                                                *)
(***************************************************************************)
\* the owner thread is inside write/read/drain, at the head of the loop or
\* at its wait, with frames outstanding
CallOutstanding ==
    \/ /\ pc \in {"w_loop", "w_wait"}
       /\ framesWritten < wLen \div bytesPerFrame
    \/ /\ pc \in {"r_loop", "r_wait"}
       /\ totalBytesRead < wLen
    \/ /\ pc \in {"d_loop", "d_wait"}
       /\ padding > 0

\* SetEvent(events[EVENT_STOP_REQUEST]) by `who'
RaiseStop(who) ==
    /\ stopEvent' = TRUE
    /\ stopBy' = IF stopBy = "none" THEN who ELSE stopBy
    /\ raisedInCall' = (raisedInCall \/ (~stopEvent /\ CallOutstanding))

\* WaitForMultipleObjects(2, events, FALSE, t): with bWaitAll FALSE the
\* call returns the lowest index among the signaled handles; both events
\* are manual-reset and nothing resets them, so a signaled event stays
\* signaled
WaitResult(ready, stop) ==
    IF ready THEN "WAIT_OBJECT_0"
    ELSE IF stop THEN "WAIT_OBJECT_1"
    ELSE "WAIT_TIMEOUT"

(***************************************************************************)
(* nStop, callable from a second thread while the owner is inside a call   *)
(***************************************************************************)
\* entry of nStop down to SetEvent
S_Begin ==
    /\ spc = "idle"
    /\ pc # "crashed"
    /\ \/ /\ ctxPtr = 0
          /\ UNCHANGED vars
       \/ /\ Opened
          /\ notifierLogs' = LogNotifierMessages(notifierLogs)
          /\ RaiseStop("stop")
          /\ spc' = "s_stop"
          /\ UNCHANGED <<kind, auxVars, resVars, pendingFrames, readyEvent, running,
                         padding, held, envVars, pc, wOff, wLen,
                         framesWritten, framesToWrite, availableFrames,
                         totalBytesRead, resultVars, uaf, nCloses>>
       \/ /\ Dangling /\ pc = "idle"
          /\ \/ pc' = "crashed" /\ UNCHANGED uaf
             \/ uaf' = TRUE /\ UNCHANGED pc
          /\ UNCHANGED <<kind, auxVars, resVars, streamVars, envVars, spc, loopVars,
                         resultVars, stopBy, nCloses>>

\* audioClient->Stop(); its status is only logged; the input session's
\* nStop ends here
S_Stop ==
    /\ spc = "s_stop"
    /\ running' = FALSE
    /\ spc' = IF kind = "output" THEN "s_getbuf" ELSE "idle"
    /\ UNCHANGED <<kind, auxVars, resVars, pendingFrames, notifierLogs, readyEvent,
                   stopEvent, padding, held, envVars, pc, loopVars,
                   resultVars, ghostVars>>

\* IAudioRenderClient::GetBuffer(n) succeeds when the client is valid, no
\* region is outstanding (else AUDCLNT_E_OUT_OF_ORDER) and n frames are free
\* (else AUDCLNT_E_BUFFER_TOO_LARGE)
GetBufferOk(n) ==
    /\ ~invalidated
    /\ held = "none"
    /\ n <= bufferFrameCount - padding

\* renderClient->GetBuffer(bufferFrameCount, &pBuffer), issued from spc =
\* "s_getbuf"; on failure pendingFrames is cleared and nStop returns
S_GetBuffer ==
    /\ spc = "s_getbuf"
    /\ IF GetBufferOk(bufferFrameCount)
       THEN /\ held' = "stop"
            /\ spc' = "s_rel"
            /\ UNCHANGED pendingFrames
       ELSE /\ pendingFrames' = 0
            /\ spc' = "idle"
            /\ UNCHANGED held
    /\ UNCHANGED <<kind, auxVars, resVars, notifierLogs, readyEvent, stopEvent,
                   running, padding, envVars, pc, loopVars, resultVars,
                   ghostVars>>

\* renderClient->ReleaseBuffer(bufferFrameCount, AUDCLNT_BUFFERFLAGS_SILENT)
\* commits a buffer of silence; then pendingFrames = 0
S_Release ==
    /\ spc = "s_rel"
    /\ padding' = IF invalidated THEN padding ELSE bufferFrameCount
    /\ held' = "none"
    /\ pendingFrames' = 0
    /\ spc' = "idle"
    /\ UNCHANGED <<kind, auxVars, resVars, notifierLogs, readyEvent, stopEvent,
                   running, envVars, pc, loopVars, resultVars, ghostVars>>

(***************************************************************************)
(* nWrite (output)                                                         *)
(***************************************************************************)
\* statuses of IMMDevice::GetState and IAudioClient::GetCurrentPadding
StateHrs == {"S_OK", "E_FAIL"}

PaddingHrs ==
    IF invalidated THEN {"AUDCLNT_E_DEVICE_INVALIDATED"} ELSE {"S_OK", "E_FAIL"}

\* a request for everything that remains, whatever is free
FramesToWrite_Remaining(avail, remaining) == remaining

\* std::min(availableFrames, totalFrames - framesWritten)
FramesToWrite(avail, remaining) == Min(avail, remaining)

\* std::min(framesToWrite, maxFrames) with
\* UINT32 maxFrames = (length - offset) / bytesPerFrame: the jint difference
\* is converted to unsigned for the division, so a negative difference
\* becomes a quotient of at least 2^31 / bytesPerFrame, above every frame
\* count of the model
ClampToMax(n, len, off, bpf) ==
    IF len - off < 0 THEN n ELSE Min(n, (len - off) \div bpf)

\* return of a looping call of the owner thread; its locals end with it
Return(r, e) ==
    /\ pc' = "idle"
    /\ ret' = r
    /\ err' = e
    /\ wOff' = 0
    /\ wLen' = 0
    /\ framesWritten' = 0
    /\ framesToWrite' = 0
    /\ availableFrames' = 0
    /\ totalBytesRead' = 0
    /\ raisedInCall' = FALSE
    /\ UNCHANGED <<lastOp, calls>>

\* entry of a looping call with its arguments
Enter(op, start, off, len) ==
    /\ pc' = start
    /\ Result(op, 0, "none")
    /\ wOff' = off
    /\ wLen' = len
    /\ UNCHANGED <<framesWritten, framesToWrite, availableFrames,
                   totalBytesRead, raisedInCall, calls>>

W_Begin ==
    /\ OwnerIdle
    /\ kind = "output"
    /\ \/ NotOpened("write", -1)
       \/ /\ Opened
          /\ \E off \in 0..MaxOff, len \in 0..MaxLen :
                /\ pendingFrames + (len \div bytesPerFrame) <= MaxPending
                /\ Enter("write", "w_loop", off, len)
          /\ UNCHANGED <<kind, auxVars, resVars, streamVars, envVars, spc, ghostVars>>
       \/ UseDangling("write")

\* head of the while loop down to the choice between waiting and acquiring
W_LoopWith(shr, phr) ==
    /\ pc = "w_loop"
    /\ UNCHANGED <<kind, auxVars, resVars, pendingFrames, readyEvent, stopEvent,
                   running, padding, held, envVars, spc, ghostVars>>
    /\ IF framesWritten >= wLen \div bytesPerFrame
       THEN /\ Return(framesWritten * bytesPerFrame, "none")
            /\ UNCHANGED notifierLogs
       ELSE
            IF shr # "S_OK"
            THEN /\ notifierLogs' = LogNotifierMessages(notifierLogs)
                 /\ Return(-1, "none")
            ELSE IF devState # "active"
            THEN /\ notifierLogs' = LogNotifierMessages(notifierLogs)
                 /\ Return(-1, "DeviceInactive")
            ELSE IF phr # "S_OK"
            THEN /\ notifierLogs' = LogNotifierMessages(notifierLogs)
                 /\ Return(-1, IF phr = "AUDCLNT_E_DEVICE_INVALIDATED"
                               THEN "DeviceInvalidated" ELSE "AudioBackend")
            ELSE /\ availableFrames' = bufferFrameCount - padding
                 /\ UNCHANGED <<notifierLogs, resultVars, wOff, wLen,
                                framesWritten, totalBytesRead, raisedInCall>>
                 /\ IF bufferFrameCount - padding = 0
                    THEN /\ pc' = "w_wait"
                         /\ UNCHANGED framesToWrite
                    ELSE /\ pc' = "w_getbuf"
                         /\ framesToWrite' =
                              FramesToWrite(bufferFrameCount - padding,
                                  (wLen \div bytesPerFrame) - framesWritten)

W_Loop == \E shr \in StateHrs, phr \in PaddingHrs : W_LoopWith(shr, phr)

\* WaitForMultipleObjects(2, context->events, FALSE, INFINITE); the `continue'
\* ends the iteration and its locals
W_Wait ==
    /\ pc = "w_wait"
    /\ WaitResult(readyEvent, stopEvent) # "WAIT_TIMEOUT"
    /\ pc' = IF WaitResult(readyEvent, stopEvent) = "WAIT_OBJECT_1"
             THEN "w_stopped" ELSE "w_loop"
    /\ availableFrames' = 0
    /\ UNCHANGED <<kind, auxVars, resVars, streamVars, envVars, spc, wOff, wLen,
                   framesWritten, framesToWrite, totalBytesRead, raisedInCall,
                   resultVars, ghostVars>>

\* the break taken on the stop event, and the return after the loop
W_Stopped ==
    /\ pc = "w_stopped"
    /\ Return(framesWritten * bytesPerFrame, "none")
    /\ UNCHANGED <<kind, auxVars, resVars, streamVars, envVars, spc, ghostVars>>

\* renderClient->GetBuffer(framesToWrite, &dest), issued from pc = "w_getbuf"
W_GetBuffer ==
    /\ pc = "w_getbuf"
    /\ IF GetBufferOk(framesToWrite)
       THEN /\ held' = "write"
            /\ pc' = "w_rel"
            /\ UNCHANGED <<loopVars, resultVars>>
       ELSE /\ Return(-1, "none")
            /\ UNCHANGED held
    /\ UNCHANGED <<kind, auxVars, resVars, pendingFrames, notifierLogs, readyEvent,
                   stopEvent, running, padding, envVars, spc, ghostVars>>

\* the clamp to maxFrames, memcpy, ReleaseBuffer and the two counters; the
\* end of the iteration ends its locals
W_Release ==
    /\ pc = "w_rel"
    /\ held' = "none"
    /\ IF invalidated
       THEN /\ Return(-1, "none")
            /\ UNCHANGED <<padding, pendingFrames>>
       ELSE LET n == ClampToMax(framesToWrite, wLen, wOff, bytesPerFrame) IN
            /\ padding' = padding + n
            /\ framesWritten' = framesWritten + n
            /\ pendingFrames' = pendingFrames + n
            /\ pc' = "w_loop"
            /\ framesToWrite' = 0
            /\ availableFrames' = 0
            /\ UNCHANGED <<wOff, wLen, totalBytesRead, raisedInCall,
                           resultVars>>
    /\ UNCHANGED <<kind, auxVars, resVars, notifierLogs, readyEvent, stopEvent,
                   running, envVars, spc, ghostVars>>

(***************************************************************************)
(* nDrain (output)                                                         *)
(***************************************************************************)
\* after the do-while loop: context->pendingFrames = 0
DrainReturn(e) ==
    /\ pendingFrames' = 0
    /\ Return(0, e)

D_Begin ==
    /\ OwnerIdle
    /\ \/ \* the input session's nDrain only throws
          /\ kind = "input"
          /\ Result("drain", 0, "UnsupportedOperation")
          /\ UNCHANGED <<kind, auxVars, resVars, streamVars, envVars, pc, spc,
                         loopVars, calls, ghostVars>>
       \/ kind = "output" /\ NotOpened("drain", 0)
       \/ kind = "output" /\ UseDangling("drain")
       \/ /\ Opened /\ kind = "output"
          /\ Enter("drain", "d_loop", 0, 0)
          /\ UNCHANGED <<kind, auxVars, resVars, streamVars, envVars, spc, ghostVars>>

\* body of the do-while loop down to the wait
D_Loop ==
    /\ pc = "d_loop"
    /\ UNCHANGED <<kind, auxVars, resVars, readyEvent, stopEvent, running, padding,
                   held, envVars, spc, ghostVars>>
    /\ \E shr \in StateHrs, phr \in PaddingHrs :
       IF shr # "S_OK" \/ devState # "active"
       THEN /\ notifierLogs' = LogNotifierMessages(notifierLogs)
            /\ DrainReturn("DeviceInvalidated")
       ELSE IF phr # "S_OK"
       THEN /\ notifierLogs' = LogNotifierMessages(notifierLogs)
            /\ DrainReturn(IF phr = "AUDCLNT_E_DEVICE_INVALIDATED"
                           THEN "DeviceInvalidated" ELSE "none")
       ELSE IF padding = 0
       THEN /\ DrainReturn("none")
            /\ UNCHANGED notifierLogs
       ELSE /\ pc' = "d_wait"
            /\ UNCHANGED <<pendingFrames, notifierLogs, loopVars, resultVars>>

\* WaitForMultipleObjects(2, handles, FALSE, 100)
D_Wait ==
    /\ pc = "d_wait"
    /\ pc' = IF WaitResult(readyEvent, stopEvent) = "WAIT_OBJECT_1"
             THEN "d_stopped" ELSE "d_loop"
    /\ UNCHANGED <<kind, auxVars, resVars, streamVars, envVars, spc, loopVars,
                   resultVars, ghostVars>>

\* the break taken on the stop event
D_Stopped ==
    /\ pc = "d_stopped"
    /\ DrainReturn("none")
    /\ UNCHANGED <<kind, auxVars, resVars, notifierLogs, readyEvent, stopEvent,
                   running, padding, held, envVars, spc, ghostVars>>

(***************************************************************************)
(* nRead (input)                                                           *)
(***************************************************************************)
\* statuses of IAudioCaptureClient::GetBuffer
CaptureHrs ==
    IF invalidated THEN {"AUDCLNT_E_DEVICE_INVALIDATED"}
    ELSE IF padding = 0 THEN {"AUDCLNT_S_BUFFER_EMPTY", "E_FAIL"}
    ELSE {"S_OK", "E_FAIL"}

\* frames of the packet GetBuffer hands out: the engine queues one frame
\* per period
PacketLength == 1

\* bytesToCopy = (remainingBytes < packetBytes) ? remainingBytes : packetBytes
BytesToCopy(remaining, ofPacket) == Min(remaining, ofPacket)

R_Begin ==
    /\ OwnerIdle
    /\ kind = "input"
    /\ \/ NotOpened("read", -1)
       \/ /\ Opened
          /\ \E off \in 0..MaxOff, len \in 0..MaxLen :
                Enter("read", "r_loop", off, len)
          /\ UNCHANGED <<kind, auxVars, resVars, streamVars, envVars, spc, ghostVars>>
       \/ UseDangling("read")

\* one iteration of the while loop: state check, GetBuffer, copy or
\* zero-fill, ReleaseBuffer(packetLength)
R_Loop ==
    /\ pc = "r_loop"
    /\ UNCHANGED <<kind, auxVars, resVars, pendingFrames, readyEvent, stopEvent,
                   running, held, envVars, spc, ghostVars>>
    /\ IF wLen - totalBytesRead = 0
       THEN /\ Return(totalBytesRead, "none")
            /\ UNCHANGED <<notifierLogs, padding>>
       ELSE \E shr \in StateHrs, ghr \in CaptureHrs, rhr \in {"S_OK", "E_FAIL"} :
            IF shr # "S_OK" \/ devState # "active"
            THEN /\ notifierLogs' = LogNotifierMessages(notifierLogs)
                 /\ Return(-1, "DeviceInactive")
                 /\ UNCHANGED padding
            ELSE IF ghr = "AUDCLNT_S_BUFFER_EMPTY"
            THEN /\ pc' = "r_wait"
                 /\ UNCHANGED <<notifierLogs, padding, loopVars, resultVars>>
            ELSE IF ghr # "S_OK"
            THEN /\ notifierLogs' = LogNotifierMessages(notifierLogs)
                 /\ Return(-1, IF ghr = "AUDCLNT_E_DEVICE_INVALIDATED"
                               THEN "DeviceInvalidated" ELSE "none")
                 /\ UNCHANGED padding
            ELSE LET n == BytesToCopy(wLen - totalBytesRead,
                                      PacketLength * bytesPerFrame) IN
                 /\ UNCHANGED notifierLogs
                 /\ IF rhr = "S_OK"
                    THEN /\ padding' = padding - PacketLength
                         /\ totalBytesRead' = totalBytesRead + n
                         /\ UNCHANGED <<pc, wOff, wLen, framesWritten,
                                        framesToWrite, availableFrames,
                                        raisedInCall, resultVars>>
                    ELSE \* ReleaseBuffer failed: break, return the count
                         /\ Return(totalBytesRead + n, "none")
                         /\ UNCHANGED padding

\* WaitForMultipleObjects(2, handles, FALSE, WAIT_TIMEOUT_MS)
R_Wait ==
    /\ pc = "r_wait"
    /\ pc' = IF WaitResult(readyEvent, stopEvent) = "WAIT_OBJECT_1"
             THEN "r_stopped" ELSE "r_loop"
    /\ UNCHANGED <<kind, auxVars, resVars, streamVars, envVars, spc, loopVars,
                   resultVars, ghostVars>>

\* the break taken on the stop event, and the return after the loop
R_Stopped ==
    /\ pc = "r_stopped"
    /\ Return(totalBytesRead, "none")
    /\ UNCHANGED <<kind, auxVars, resVars, streamVars, envVars, spc, ghostVars>>

(***************************************************************************)
(* nAvailable, nFlush                                                      *)
(***************************************************************************)
\* UINT32 availableFrames = bufferFrameCount - padding, returned as -1 when
\* above INT_MAX: a difference below zero wraps to 2^32 - d > INT_MAX
AvailableOut(bfc, pad) ==
    IF bfc - pad < 0 THEN -1 ELSE bfc - pad

nAvailable ==
    /\ OwnerIdle
    /\ \/ NotOpened("available", -1)
       \/ UseDangling("available")
       \/ /\ Opened /\ kind = "output"
          /\ notifierLogs' = LogNotifierMessages(notifierLogs)
          /\ \E phr \in PaddingHrs :
                IF phr = "S_OK"
                THEN Result("available", AvailableOut(bufferFrameCount, padding),
                            "none")
                ELSE Result("available", -1, "AudioBackend")
          /\ UNCHANGED <<kind, auxVars, resVars, pendingFrames, readyEvent, stopEvent,
                         running, padding, held, envVars, pc, spc, loopVars,
                         calls, ghostVars>>
       \/ /\ Opened /\ kind = "input"
          /\ notifierLogs' = LogNotifierMessages(notifierLogs)
          /\ \E ghr \in CaptureHrs :
                IF ghr = "AUDCLNT_S_BUFFER_EMPTY"
                THEN Result("available", 0, "none") /\ UNCHANGED padding
                ELSE IF ghr # "S_OK"
                THEN Result("available", -1, "none") /\ UNCHANGED padding
                ELSE \* ReleaseBuffer(packetLength) consumes the packet
                     /\ padding' = padding - PacketLength
                     /\ Result("available", PacketLength * bytesPerFrame, "none")
          /\ UNCHANGED <<kind, auxVars, resVars, pendingFrames, readyEvent, stopEvent,
                         running, held, envVars, pc, spc, loopVars, calls,
                         ghostVars>>

nFlush ==
    /\ OwnerIdle
    /\ \/ /\ kind = "output"
          /\ Result("flush", 0, "UnsupportedOperation")
          /\ UNCHANGED <<kind, auxVars, resVars, streamVars, envVars, pc, spc,
                         loopVars, calls, ghostVars>>
       \/ kind = "input" /\ NotOpened("flush", 0)
       \/ kind = "input" /\ UseDangling("flush")
       \/ /\ Opened /\ kind = "input"
          /\ notifierLogs' = LogNotifierMessages(notifierLogs)
          /\ \E ghr \in CaptureHrs :
                padding' = IF ghr = "S_OK" THEN padding - PacketLength
                           ELSE padding
          /\ Result("flush", 0, "none")
          /\ UNCHANGED <<kind, auxVars, resVars, pendingFrames, readyEvent, stopEvent,
                         running, held, envVars, pc, spc, loopVars, calls,
                         ghostVars>>

(***************************************************************************)
(* The audio engine and the device.                                        *)
(***************************************************************************)
\* one period of the started stream: the engine plays (or captures) a frame
\* and signals the event bound with SetEventHandle
DevicePeriod ==
    /\ Opened
    /\ pc # "crashed"
    /\ running
    /\ ~invalidated
    /\ devState = "active"
    /\ readyEvent' = TRUE
    /\ padding' = IF kind = "output"
                  THEN (IF padding > 0 THEN padding - 1 ELSE 0)
                  ELSE (IF padding + PacketLength <= bufferFrameCount
                        THEN padding + PacketLength ELSE padding)
    /\ UNCHANGED <<kind, auxVars, resVars, pendingFrames, notifierLogs, stopEvent,
                   running, held, envVars, pc, spc, loopVars, resultVars,
                   ghostVars>>

\* the device is unplugged or plugged back; a stream on a device that went
\* away is invalidated for good
DeviceStateChange ==
    /\ pc # "crashed"
    /\ devState' = IF devState = "active" THEN "unplugged" ELSE "active"
    /\ IF devState = "active" /\ Opened
       THEN invalidated' = TRUE /\ running' = FALSE
       ELSE UNCHANGED <<invalidated, running>>
    /\ UNCHANGED <<kind, auxVars, resVars, pendingFrames, notifierLogs, readyEvent,
                   stopEvent, padding, held, pc, spc, loopVars, resultVars,
                   ghostVars>>

\* the device's format changes under an open stream
DeviceFormatChange ==
    /\ pc # "crashed"
    /\ Opened
    /\ ~invalidated
    /\ invalidated' = TRUE
    /\ running' = FALSE
    /\ UNCHANGED <<kind, auxVars, resVars, pendingFrames, notifierLogs, readyEvent,
                   stopEvent, padding, held, devState, pc, spc, loopVars,
                   resultVars, ghostVars>>

(***************************************************************************)
(* DeviceChangeNotifier / InputDeviceChangeNotifier, on the platform's     *)
(* notification thread.                                                    *)
(***************************************************************************)
\* a callback that queues `msgs' messages and, if `interrupts', ends in
\* interruptPlayback / interruptCapture (one more message, then SetEvent)
Callback_Flushing(msgs, interrupts) ==
    /\ registered
    /\ pendingFrames' = 0
    /\ pc # "crashed"
    /\ IF ctxAlive
       THEN /\ notifierLogs + msgs + (IF interrupts THEN 1 ELSE 0) <= MaxLogs
            /\ notifierLogs' = notifierLogs + msgs + (IF interrupts THEN 1 ELSE 0)
            /\ IF interrupts
               THEN RaiseStop("notify")
               ELSE UNCHANGED <<stopEvent, stopBy, raisedInCall>>
            /\ UNCHANGED <<pc, uaf>>
       ELSE \* the notifier's context pointer refers to a deleted context
            /\ \/ pc' = "crashed" /\ UNCHANGED uaf
               \/ uaf' = TRUE /\ UNCHANGED pc
            /\ UNCHANGED <<notifierLogs, stopEvent, stopBy, raisedInCall>>
    /\ UNCHANGED <<kind, auxVars, resVars, readyEvent, running, padding,
                   held, envVars, spc, wOff, wLen, framesWritten,
                   framesToWrite, availableFrames, totalBytesRead, resultVars,
                   nCloses>>
Callback(msgs, interrupts) ==
    /\ registered
    /\ pc # "crashed"
    /\ IF ctxAlive
       THEN /\ notifierLogs + msgs + (IF interrupts THEN 1 ELSE 0) <= MaxLogs
            /\ notifierLogs' = notifierLogs + msgs + (IF interrupts THEN 1 ELSE 0)
            /\ IF interrupts
               THEN RaiseStop("notify")
               ELSE UNCHANGED <<stopEvent, stopBy, raisedInCall>>
            /\ UNCHANGED <<pc, uaf>>
       ELSE \* the notifier's context pointer refers to a deleted context
            /\ \/ pc' = "crashed" /\ UNCHANGED uaf
               \/ uaf' = TRUE /\ UNCHANGED pc
            /\ UNCHANGED <<notifierLogs, stopEvent, stopBy, raisedInCall>>
    /\ UNCHANGED <<kind, auxVars, resVars, pendingFrames, readyEvent, running, padding,
                   held, envVars, spc, wOff, wLen, framesWritten,
                   framesToWrite, availableFrames, totalBytesRead, resultVars,
                   nCloses>>

\* values of dwNewState
NewStates == {"DEVICE_STATE_ACTIVE", "DEVICE_STATE_DISABLED",
              "DEVICE_STATE_NOTPRESENT", "DEVICE_STATE_UNPLUGGED"}

\* every state but the active one interrupts
InterruptsOnState_NotActive(dwNewState) ==
    dwNewState # "DEVICE_STATE_ACTIVE"

\* the condition under which OnDeviceStateChanged calls interruptPlayback
InterruptsOnState(dwNewState) ==
    dwNewState \in {"DEVICE_STATE_NOTPRESENT", "DEVICE_STATE_UNPLUGGED"}

OnDeviceStateChangedTo(dwNewState) ==
    Callback(1, InterruptsOnState(dwNewState))

OnDeviceStateChanged ==
    \E dwNewState \in NewStates : OnDeviceStateChangedTo(dwNewState)

Flows == {"eRender", "eCapture"}

\* the flow of the notification is used in the message only
OnDefaultDeviceChangedOf(flow) == Callback(1, TRUE)

OnDefaultDeviceChanged ==
    \E flow \in Flows : OnDefaultDeviceChangedOf(flow)

OnDeviceAdded == Callback(1, FALSE)

OnDeviceRemoved == Callback(1, TRUE)

PropertyKeys == {"PKEY_AudioEngine_DeviceFormat", "PKEY_DeviceInterface_Enabled",
                 "other"}

OnPropertyValueChangedOf(key) ==
    IF key = "other" THEN registered /\ pc # "crashed" /\ UNCHANGED vars
    ELSE Callback(1, TRUE)

OnPropertyValueChanged ==
    \E key \in PropertyKeys : OnPropertyValueChangedOf(key)

(***************************************************************************)
(* The specification.                                                      *)
(***************************************************************************)
\* steps of the owner thread inside a call
OwnerStep ==
    \/ W_Loop \/ W_Wait \/ W_Stopped \/ W_GetBuffer \/ W_Release
    \/ D_Loop \/ D_Wait \/ D_Stopped
    \/ R_Loop \/ R_Wait \/ R_Stopped

\* steps of the thread inside nStop
StopStep == S_Stop \/ S_GetBuffer \/ S_Release

Next ==
    \/ nOpen \/ nClose \/ nStart \/ nAvailable \/ nFlush \/ nQuery
    \/ W_Begin \/ D_Begin \/ R_Begin
    \/ OwnerStep
    \/ S_Begin \/ StopStep
    \/ DevicePeriod \/ DeviceStateChange \/ DeviceFormatChange
    \/ OnDeviceStateChanged \/ OnDefaultDeviceChanged \/ OnDeviceAdded
    \/ OnDeviceRemoved \/ OnPropertyValueChanged

Spec == Init /\ [][Next]_vars

\* a thread that is inside a call keeps running, and a started stream on an
\* active device keeps going through its periods
FairSpec ==
    Spec /\ WF_vars(OwnerStep) /\ WF_vars(StopStep) /\ WF_vars(DevicePeriod)

(***************************************************************************)
(* The format negotiation of nOpen, value by value (wasapi_bridge.hpp and  *)
(* the middle of nOpen).  The resources of an open are followed by nOpen   *)
(* above; the steps below follow the formats and the sizes.                *)
(***************************************************************************)
\* a value stored into a WORD field
Word(n) == n % 65536

SampleRates == {44100, 48000}
BitDepths == {8, 16, 24, 32}
ChannelCounts == {1, 2}
\* AudioFormat.Encoding; ULAW stands for the encodings the bridge rejects
Encodings == {"PCM_UNSIGNED", "PCM_SIGNED", "PCM_FLOAT", "ULAW"}

\* the AudioFormat objects handed to nOpen
AudioFormats ==
    [sampleRate : SampleRates, bits : BitDepths, channels : ChannelCounts,
     encoding : Encodings, bigEndian : BOOLEAN]

\* the buffer sizes in bytes handed to nOpen
BufferSizes == {0, 6, 1024}

AudioFormat_to_WAVEFORMATEX(audioFormat) ==
    IF audioFormat = Null THEN Null
    ELSE
    LET isFloat == audioFormat.encoding = "PCM_FLOAT"
        isPcm   == audioFormat.encoding \in {"PCM_UNSIGNED", "PCM_SIGNED"}
        nBlockAlign == Word((audioFormat.channels * audioFormat.bits) \div 8)
    IN  IF ~isFloat /\ ~isPcm THEN Null
        ELSE [wFormatTag      |-> IF isFloat THEN "IEEE_FLOAT" ELSE "PCM",
              nChannels       |-> Word(audioFormat.channels),
              nSamplesPerSec  |-> audioFormat.sampleRate,
              wBitsPerSample  |-> Word(audioFormat.bits),
              nBlockAlign     |-> nBlockAlign,
              nAvgBytesPerSec |-> audioFormat.sampleRate * nBlockAlign,
              cbSize          |-> 0,
              SubFormat       |-> "none"]

WAVEFORMATEX_to_AudioFormat(waveformat) ==
    IF waveformat = Null THEN Null
    ELSE
    LET formatTag ==
            IF waveformat.wFormatTag = "EXTENSIBLE"
            THEN IF waveformat.SubFormat \in {"PCM", "IEEE_FLOAT"}
                 THEN waveformat.SubFormat ELSE "unsupported"
            ELSE waveformat.wFormatTag
        isFloat == formatTag = "IEEE_FLOAT"
        isPcm   == formatTag = "PCM"
        bits    == waveformat.wBitsPerSample
    IN  IF ~isFloat /\ ~isPcm THEN Null
        ELSE [sampleRate |-> waveformat.nSamplesPerSec,
              bits       |-> bits,
              channels   |-> waveformat.nChannels,
              encoding   |-> IF isFloat THEN "PCM_FLOAT"
                             ELSE IF bits = 8 THEN "PCM_UNSIGNED"
                             ELSE "PCM_SIGNED",
              bigEndian  |-> FALSE]

\* a WAVEFORMATEXTENSIBLE block of the platform
Extensible(sub, rate, bits, ch) ==
    [wFormatTag      |-> "EXTENSIBLE",
     nChannels       |-> ch,
     nSamplesPerSec  |-> rate,
     wBitsPerSample  |-> bits,
     nBlockAlign     |-> (ch * bits) \div 8,
     nAvgBytesPerSec |-> rate * ((ch * bits) \div 8),
     cbSize          |-> 22,
     SubFormat       |-> sub]

\* the closest matches IsFormatSupported may store: mix formats of an
\* endpoint, one of them in a sub-format the bridge cannot convert back
ClosestFormats ==
    { Extensible("IEEE_FLOAT", 48000, 32, 2),
      Extensible("PCM", 44100, 16, 2),
      Extensible("PCM", 44100, 8, 1),
      Extensible("ALAW", 44100, 8, 1) }

\* the format nOpen goes on with after IsFormatSupported, Null when it fails
AdoptedFormat_KeepRequest(hr, requested, closest) ==
    IF hr = "S_OK" THEN requested
    ELSE IF hr = "S_FALSE" /\ closest # Null THEN requested
    ELSE Null
AdoptedFormat(hr, requested, closest) ==
    IF hr = "S_OK" THEN requested
    ELSE IF hr = "S_FALSE" /\ closest # Null THEN closest
    ELSE Null

\* int bufferSizeInFrames = bufferSize / format->nBlockAlign
BufferSizeInFrames_OfRequest(bytes, fmt) ==
    bytes \div AudioFormat_to_WAVEFORMATEX(request).nBlockAlign
BufferSizeInFrames(bytes, fmt) == bytes \div fmt.nBlockAlign

\* frames the audio client may add to the requested buffer duration
ExtraFrames == {0, 3}

\* what the steps below leave alone
openRest == <<kind, fld, live, overFreed, notifierRef, registered,
              streamVars, envVars, pc, spc, loopVars, calls, ghostVars,
              logVars, supportVars, portVars, availVars, captureVars>>

O_Fail ==
    /\ fpc' = "failed"
    /\ Result("open", 0, "AudioBackend")

O_Convert ==
    /\ fpc = "idle"
    /\ ctxPtr = 0
    /\ \E jformat \in AudioFormats, bytes \in BufferSizes :
        /\ request' = jformat
        /\ bufferSize' = bytes
        /\ format' = AudioFormat_to_WAVEFORMATEX(jformat)
    /\ IF format' = Null
       THEN O_Fail
       ELSE /\ fpc' = "converted"
            /\ UNCHANGED resultVars
    /\ UNCHANGED <<openRest, resVars, closestFormat, hrFormat,
                   bufferSizeInFrames, deviceFrames, hrBufferSize, result>>

O_IsFormatSupported ==
    /\ fpc = "converted"
    /\ \E hr \in {"S_OK", "S_FALSE", "FAILED"},
          closest \in ClosestFormats \cup {Null} :
        /\ (hr # "S_FALSE") => closest = Null
        /\ hrFormat' = hr
        /\ closestFormat' = closest
        /\ format' = AdoptedFormat(hr, format, closest)
    /\ IF format' = Null
       THEN O_Fail
       ELSE /\ fpc' = "negotiated"
            /\ UNCHANGED resultVars
    /\ UNCHANGED <<openRest, resVars, request, bufferSize,
                   bufferSizeInFrames, deviceFrames, hrBufferSize, result>>

O_Initialize ==
    /\ fpc = "negotiated"
    /\ bufferSizeInFrames' = BufferSizeInFrames(bufferSize, format)
    /\ \E ok \in BOOLEAN, extra \in ExtraFrames :
        IF ok
        THEN /\ deviceFrames' = bufferSizeInFrames' + extra
             /\ fpc' = "initialized"
             /\ UNCHANGED resultVars
        ELSE /\ O_Fail
             /\ UNCHANGED deviceFrames
    /\ UNCHANGED <<openRest, resVars, request, bufferSize, format,
                   closestFormat, hrFormat, hrBufferSize, result>>

\* GetBufferSize, bytesPerFrame and the handle: the output session ignores
\* the status of GetBufferSize, the input session fails on it
O_GetBufferSize ==
    /\ fpc = "initialized"
    /\ \E hr \in {"S_OK", "FAILED"} :
        /\ hrBufferSize' = hr
        /\ bufferFrameCount' = IF hr = "S_OK" THEN deviceFrames
                               ELSE bufferFrameCount
        /\ IF hr = "FAILED" /\ kind = "input"
           THEN /\ O_Fail
                /\ UNCHANGED <<bytesPerFrame, ctxPtr, ctxAlive>>
           ELSE /\ bytesPerFrame' = format.nBlockAlign
                /\ ctxPtr' = 1
                /\ ctxAlive' = TRUE
                /\ fpc' = "stored"
                /\ UNCHANGED resultVars
    /\ UNCHANGED <<openRest, request, bufferSize, format, closestFormat,
                   hrFormat, bufferSizeInFrames, deviceFrames, result>>

\* the AudioFormat nOpen returns; a failure here deletes the context and
\* leaves the handle in place
O_Result ==
    /\ fpc = "stored"
    /\ result' = WAVEFORMATEX_to_AudioFormat(format)
    /\ IF result' = Null
       THEN /\ O_Fail
            /\ ctxAlive' = FALSE
       ELSE /\ fpc' = "opened"
            /\ Result("open", 1, "none")
            /\ UNCHANGED ctxAlive
    /\ UNCHANGED <<openRest, ctxPtr, bufferFrameCount, bytesPerFrame,
                   request, bufferSize, format, closestFormat, hrFormat,
                   bufferSizeInFrames, deviceFrames, hrBufferSize>>

\* what a read of the freed context's bufferFrameCount may give
DanglingReads == {0, bufferFrameCount}

nGetBufferSize ==
    /\ fpc \in {"idle", "opened", "failed"}
    /\ IF ctxPtr = 0
       THEN Result("getBufferSize", -1, "none")
       ELSE IF ctxAlive
       THEN Result("getBufferSize", bufferFrameCount, "none")
       ELSE \E v \in DanglingReads : Result("getBufferSize", v, "none")
    /\ UNCHANGED <<openRest, resVars, formatVars>>

FormatNext ==
    \/ O_Convert
    \/ O_IsFormatSupported
    \/ O_Initialize
    \/ O_GetBufferSize
    \/ O_Result
    \/ nGetBufferSize

FormatSpec == Init /\ [][FormatNext]_vars

(***************************************************************************)
(* The notification queue, message by message: the appends of the          *)
(* notification thread and popLog of the owner thread, each in two steps   *)
(* (entry, then the queue operation and the exit), on a session nOpen has  *)
(* opened.                                                                 *)
(***************************************************************************)
\* the messages the callbacks build
Messages == {"Device state changed", "Default device changed",
             "Device added", "Device removed", "Device format changed",
             "Interrupting"}

\* whether the callbacks of a session kind append through pushLog, which
\* takes logMutex: the input notifier calls context->pushLog(msg), the
\* output notifier calls context->notifierLogs.push(msg)
PushLocks(k) == k = "input"

\* what std::queue may hold after a push, or after a pop, that ran at the
\* same time as the other operation without a common lock
RacedPush(q, msg) == {Append(q, msg), q, <<>>}
RacedPop(q) == {q, <<>>} \cup (IF q = <<>> THEN {} ELSE {Tail(q)})

logRest == <<kind, resVars, pendingFrames, readyEvent, stopEvent, running,
             padding, held, envVars, pc, spc, loopVars, resultVars,
             ghostVars, formatVars, supportVars, portVars, availVars,
             captureVars>>

\* a callback enters its append
Push_Enter ==
    /\ registered /\ ctxAlive
    /\ npc = "idle"
    /\ Len(logQueue) < MaxLogs
    /\ \E msg \in Messages : nmsg' = msg
    /\ IF PushLocks(kind)
       THEN /\ logMutex = "free"
            /\ logMutex' = "notifier"
       ELSE UNCHANGED logMutex
    /\ npc' = "push"
    /\ UNCHANGED <<logRest, notifierLogs, logQueue, lpc>>

\* notifierLogs.push(msg), and the end of the append
Push_Done ==
    /\ npc = "push"
    /\ IF lpc = "pop" /\ logMutex # "notifier"
       THEN logQueue' \in RacedPush(logQueue, nmsg)
       ELSE logQueue' = Append(logQueue, nmsg)
    /\ notifierLogs' = Len(logQueue')
    /\ logMutex' = IF logMutex = "notifier" THEN "free" ELSE logMutex
    /\ npc' = "idle"
    /\ nmsg' = "none"
    /\ UNCHANGED <<logRest, lpc>>

\* popLog: std::lock_guard<std::mutex> lock(logMutex)
PopLog_Enter ==
    /\ ctxAlive
    /\ lpc = "idle"
    /\ logMutex = "free"
    /\ logMutex' = "owner"
    /\ lpc' = "pop"
    /\ UNCHANGED <<logRest, notifierLogs, logQueue, npc, nmsg>>

\* popLog: empty(), front(), pop(), and the end of the lock's scope
PopLog_Done ==
    /\ lpc = "pop"
    /\ IF npc = "push"
       THEN logQueue' \in RacedPop(logQueue)
       ELSE logQueue' = IF logQueue = <<>> THEN <<>> ELSE Tail(logQueue)
    /\ notifierLogs' = Len(logQueue')
    /\ logMutex' = "free"
    /\ lpc' = "idle"
    /\ UNCHANGED <<logRest, npc, nmsg>>

LogNext ==
    \/ nOpen
    \/ Push_Enter \/ Push_Done
    \/ PopLog_Enter \/ PopLog_Done

LogSpec == Init /\ [][LogNext]_vars

(***************************************************************************)
(* nIsFormatSupported of the shared backend (wasapi_shared_backend.cpp).   *)
(***************************************************************************)
\* what the caller's AtomicReference may hold before the call
PriorSlots ==
    {Null, [sampleRate |-> 8000, bits |-> 8, channels |-> 1,
            encoding |-> "PCM_UNSIGNED", bigEndian |-> FALSE]}

\* the jboolean returned for a status of IsFormatSupported
Supported_NotFailed(hr) ==
    IF hr \in {"S_OK", "S_FALSE"} THEN "JNI_TRUE" ELSE "JNI_FALSE"
Supported(hr) == IF hr = "S_OK" THEN "JNI_TRUE" ELSE "JNI_FALSE"

supportRest == <<kind, resVars, streamVars, envVars, pc, spc, loopVars,
                 resultVars, ghostVars, logVars, portVars, availVars,
                 captureVars,
                 bufferSize,
                 bufferSizeInFrames, deviceFrames, hrBufferSize, result>>

\* the call down to Activate: null arguments, AudioPort_to_IMMDevice,
\* AudioFormat_to_WAVEFORMATEX and Activate each end it with JNI_FALSE
IS_Begin ==
    /\ fpc = "idle"
    /\ \E jport \in {"null", "port"}, jformat \in AudioFormats \cup {Null},
          given \in BOOLEAN, prior \in PriorSlots,
          deviceOk \in BOOLEAN, activateOk \in BOOLEAN :
        /\ (jport = "null" \/ jformat = Null) => (deviceOk /\ activateOk)
        /\ ~deviceOk => activateOk
        /\ request' = jformat
        /\ slotGiven' = given
        /\ slot' = prior
        /\ slotBefore' = prior
        /\ format' = IF jport = "null" \/ ~deviceOk THEN Null
                     ELSE AudioFormat_to_WAVEFORMATEX(jformat)
        /\ IF format' = Null \/ ~activateOk
           THEN /\ supported' = "JNI_FALSE"
                /\ fpc' = "is_done"
           ELSE /\ supported' = "none"
                /\ fpc' = "is_activated"
    /\ UNCHANGED <<supportRest, hrFormat, closestFormat>>

\* IsFormatSupported(AUDCLNT_SHAREMODE_SHARED, format, &closest) and the
\* three branches on its status; a closest match the bridge cannot convert
\* leaves an exception pending when the reference's set method is called
IS_Query ==
    /\ fpc = "is_activated"
    /\ \E hr \in {"S_OK", "S_FALSE", "FAILED"},
          closest \in ClosestFormats \cup {Null} :
        /\ (hr # "S_FALSE") => closest = Null
        /\ hrFormat' = hr
        /\ closestFormat' = closest
        /\ supported' = Supported(hr)
        /\ IF hr = "S_FALSE" /\ closest # Null /\ slotGiven
           THEN IF WAVEFORMATEX_to_AudioFormat(closest) = Null
                THEN slot' \in {Null, slot}
                ELSE slot' = WAVEFORMATEX_to_AudioFormat(closest)
           ELSE UNCHANGED slot
    /\ fpc' = "is_done"
    /\ UNCHANGED <<supportRest, request, format, slotGiven, slotBefore>>

SupportNext == IS_Begin \/ IS_Query

SupportSpec == Init /\ [][SupportNext]_vars

(***************************************************************************)
(* nGetAllPorts of the shared backend (wasapi_shared_backend.cpp), with    *)
(* getDevicesList (wasapi_utils.hpp) and IMMDevice_to_AudioPort            *)
(* (wasapi_bridge.hpp).                                                    *)
(***************************************************************************)
\* the endpoints of the platform: in one of the four device states, and one
\* active endpoint whose property store cannot be opened
EndpointKinds ==
    [state : NewStates, propsOk : {TRUE}]
        \cup {[state |-> "DEVICE_STATE_ACTIVE", propsOk |-> FALSE]}

\* the endpoints of one direction, in the platform's order
EndpointLists == UNION {[1..n -> EndpointKinds] : n \in 0..MaxEndpoints}

DEVICE_STATEMASK_ALL == NewStates

\* IMMDeviceEnumerator::EnumAudioEndpoints(flow, mask, &pCollection): the
\* endpoints of the direction whose state is in the mask, in the platform's
\* order; id is the endpoint's position among the endpoints of its direction
EnumAudioEndpoints(endpoints, mask) ==
    LET item(i) == [id      |-> i,
                    state   |-> endpoints[i].state,
                    propsOk |-> endpoints[i].propsOk]
        InMask(e) == e.state \in mask
    IN  SelectSeq([i \in 1..Len(endpoints) |-> item(i)], InMask)

getDevicesList(endpoints) ==
    EnumAudioEndpoints(endpoints, DEVICE_STATEMASK_ALL)

\* the AudioPort of an endpoint, Null (with an exception thrown) when its
\* property store cannot be opened
IMMDevice_to_AudioPort(pDevice, flow) ==
    IF ~pDevice.propsOk THEN Null
    ELSE [flow     |-> flow,
          handle   |-> pDevice.id,
          isActive |-> pDevice.state = "DEVICE_STATE_ACTIVE"]

\* `index' is declared once before the two loops: the capture loop goes on
\* where the render loop ended
IndexAfterRender_Restart(i) == i - i
IndexAfterRender(i) == i

portRest == <<kind, resVars, streamVars, envVars, pc, spc, loopVars,
              resultVars, ghostVars, formatVars, logVars, supportVars,
              availVars, captureVars>>

\* down to NewObjectArray: a missing enumerator, a failed enumeration or a
\* failed allocation returns nullptr
G_Begin ==
    /\ gpc = "idle"
    /\ \E outputs \in EndpointLists, inputs \in EndpointLists,
          ok \in BOOLEAN :
        /\ renderDevices' = getDevicesList(outputs)
        /\ captureDevices' = getDevicesList(inputs)
        /\ IF ok
           THEN /\ portArray' =
                    [k \in 1..(Len(renderDevices') + Len(captureDevices'))
                        |-> Null]
                /\ gpc' = "render"
           ELSE /\ portArray' = <<>>
                /\ gpc' = "failed"
    /\ index' = 0
    /\ itemNo' = 0
    /\ exceptionPending' = FALSE
    /\ UNCHANGED portRest

\* one iteration of the loop over renderDevices, or its end
G_Render ==
    /\ gpc = "render"
    /\ IF itemNo < Len(renderDevices)
       THEN LET audioPortObj ==
                    IMMDevice_to_AudioPort(renderDevices[itemNo + 1], "eRender")
            IN  /\ portArray' = [portArray EXCEPT ![index + 1] = audioPortObj]
                /\ exceptionPending' = (exceptionPending \/ audioPortObj = Null)
                /\ index' = index + 1
                /\ itemNo' = itemNo + 1
                /\ UNCHANGED gpc
       ELSE /\ gpc' = "capture"
            /\ index' = IndexAfterRender(index)
            /\ itemNo' = 0
            /\ UNCHANGED <<portArray, exceptionPending>>
    /\ UNCHANGED <<portRest, renderDevices, captureDevices>>

\* one iteration of the loop over captureDevices, or the return of the array
G_Capture ==
    /\ gpc = "capture"
    /\ IF itemNo < Len(captureDevices)
       THEN LET audioPortObj ==
                    IMMDevice_to_AudioPort(captureDevices[itemNo + 1], "eCapture")
            IN  /\ portArray' = [portArray EXCEPT ![index + 1] = audioPortObj]
                /\ exceptionPending' = (exceptionPending \/ audioPortObj = Null)
                /\ index' = index + 1
                /\ itemNo' = itemNo + 1
                /\ UNCHANGED gpc
       ELSE /\ gpc' = "done"
            /\ UNCHANGED <<portArray, exceptionPending, index, itemNo>>
    /\ UNCHANGED <<portRest, renderDevices, captureDevices>>

PortsNext == G_Begin \/ G_Render \/ G_Capture

PortsSpec == Init /\ [][PortsNext]_vars

(***************************************************************************)
(* nAvailable of the output at the width of its integers.  A UINT32 is a   *)
(* pair of 16-bit halves, hi * 2^16 + lo, so that the subtraction wraps at *)
(* 2^32 as the code's does.                                                *)
(***************************************************************************)

\* 2^16: a UINT32 is two halves of this size
Half == 65536

\* how far from 0, INT_MAX and UINT32_MAX the frame counts are drawn
MaxNear == 2

UINT32_Zero == [hi |-> 0, lo |-> 0]

INT_MAX == [hi |-> (Half \div 2) - 1, lo |-> Half - 1]

UINT32_MAX == [hi |-> Half - 1, lo |-> Half - 1]

\* a - b and a + b as UINT32 arithmetic computes them, modulo 2^32
UINT32_Sub(a, b) ==
    LET borrow == IF a.lo < b.lo THEN 1 ELSE 0
    IN  [hi |-> (a.hi - b.hi - borrow) % Half, lo |-> (a.lo - b.lo) % Half]

UINT32_Add(a, b) ==
    LET carry == IF a.lo + b.lo >= Half THEN 1 ELSE 0
    IN  [hi |-> (a.hi + b.hi + carry) % Half, lo |-> (a.lo + b.lo) % Half]

UINT32_Of(n) == [hi |-> n \div Half, lo |-> n % Half]

\* a > b as unsigned 32-bit values
UINT32_Gt(a, b) == a.hi > b.hi \/ (a.hi = b.hi /\ a.lo > b.lo)

\* (jint) of a value that is at most INT_MAX
ToJint(w) == w.hi * Half + w.lo

\* the frame counts a device can report: around 0, INT_MAX and UINT32_MAX
FrameCounts32 ==
    {UINT32_Of(n) : n \in 0..MaxNear}
        \cup {UINT32_Sub(INT_MAX, UINT32_Of(n)) : n \in 0..MaxNear}
        \cup {UINT32_Add(INT_MAX, UINT32_Of(n)) : n \in 1..MaxNear}
        \cup {UINT32_Sub(UINT32_MAX, UINT32_Of(n)) : n \in 0..MaxNear}

\* -1 as soon as no frame is free
AvailableFrames_NoneFree(bfc, pad) ==
    LET difference == UINT32_Sub(bfc, pad)
    IN  IF UINT32_Gt(difference, INT_MAX) \/ difference = UINT32_Zero
        THEN -1
        ELSE ToJint(difference)

\* UINT32 availableFrames = context->bufferFrameCount - padding, then the
\* check against INT_MAX and the cast
AvailableFrames(bfc, pad) ==
    LET difference == UINT32_Sub(bfc, pad)
    IN  IF UINT32_Gt(difference, INT_MAX)
        THEN -1
        ELSE ToJint(difference)

availRest == <<kind, resVars, streamVars, envVars, pc, spc, loopVars,
               resultVars, ghostVars, formatVars, logVars, supportVars,
               portVars, captureVars>>

\* the call enters with the context of an opened output
AV_Enter ==
    /\ apc \in {"idle", "done"}
    /\ apc' = "entered"
    /\ \E bfc \in FrameCounts32 : frameCount32' = bfc
    /\ UNCHANGED <<availRest, padding32, hrPadding, available>>

AV_GetCurrentPadding ==
    /\ apc = "entered"
    /\ apc' = "padded"
    /\ \E hr \in {"S_OK", "E_FAIL"} :
          /\ hrPadding' = hr
          /\ IF hr = "S_OK"
             THEN \E pad \in FrameCounts32 : padding32' = pad
             ELSE padding32' = UINT32_Zero
    /\ UNCHANGED <<availRest, frameCount32, available>>

AV_Return ==
    /\ apc = "padded"
    /\ apc' = "done"
    /\ available' = IF hrPadding # "S_OK"
                    THEN -1
                    ELSE AvailableFrames(frameCount32, padding32)
    /\ UNCHANGED <<availRest, frameCount32, padding32, hrPadding>>

AvailNext == AV_Enter \/ AV_GetCurrentPadding \/ AV_Return

AvailSpec == Init /\ [][AvailNext]_vars

(***************************************************************************)
(* nRead and nAvailable of the input, byte by byte.  The endpoint buffer   *)
(* is a queue of packets; a packet carries its frames' bytes and the       *)
(* silent flag.  The session is open, with FrameSize bytes in a frame.     *)
(***************************************************************************)

\* packets the engine captures in a behaviour
MaxPackets == 2

\* packets the endpoint buffer holds at a time
MaxQueue == 2

\* frames of a packet
MaxPacketFrames == 2

\* context->bytesPerFrame of the opened session
FrameSize == CHOOSE b \in FrameSizes : TRUE

\* the untouched content of an element of the caller's array
Untouched == -1

\* byte j of the k-th packet captured; never 0, so that it differs from
\* the zero-fill
PacketByte(k, j) == k * (MaxPacketFrames * FrameSize + 1) + j

\* the k-th packet: n frames of data, with the silent flag or without
Packet(k, n, silent) ==
    [packetLength |-> n,
     silent       |-> silent,
     pData        |-> [j \in 1..(n * FrameSize) |-> PacketByte(k, j)]]

\* bytes queued in the endpoint buffer
RECURSIVE QueuedBytes(_)
QueuedBytes(q) ==
    IF q = <<>> THEN 0
    ELSE Head(q).packetLength * FrameSize + QueuedBytes(Tail(q))

\* memcpy for a region flagged silent, too
Filled_Raw(pkt, j) == pkt.pData[j]

\* the byte nRead stores for byte j of the region: memset(.., 0, ..) for a
\* region flagged silent, memcpy from pData otherwise
Filled(pkt, j) == IF pkt.silent THEN 0 ELSE pkt.pData[j]

captureRest == <<kind, resVars, streamVars, envVars, pc, spc, loopVars,
                 resultVars, ghostVars, formatVars, logVars, supportVars,
                 portVars, availVars>>

\* the engine captures a packet into the endpoint buffer
CP_Capture ==
    /\ produced < MaxPackets
    /\ Len(captureQueue) < MaxQueue
    /\ produced' = produced + 1
    /\ \E n \in 0..MaxPacketFrames, silent \in BOOLEAN :
          captureQueue' = Append(captureQueue, Packet(produced + 1, n, silent))
    /\ UNCHANGED <<captureRest, cpc, packet, dest, destOffset, remainingBytes,
                   bytesRead, bytesToCopy, captured>>

\* nRead(buffer, offset, length) on the opened input
RD_Begin ==
    /\ cpc = "idle"
    /\ \E offset \in 0..MaxOff, length \in 0..MaxLen :
          /\ dest' = [j \in 1..(MaxOff + MaxLen) |-> Untouched]
          /\ destOffset' = offset
          /\ remainingBytes' = length
    /\ bytesRead' = 0
    /\ bytesToCopy' = 0
    /\ cpc' = "loop"
    /\ UNCHANGED <<captureRest, captureQueue, produced, packet, captured>>

\* the head of the while loop: the test, the state of the device, GetBuffer,
\* and the wait on an empty buffer
RD_GetBuffer ==
    /\ cpc = "loop"
    /\ UNCHANGED <<captureRest, captureQueue, produced, dest, destOffset,
                   remainingBytes, bytesRead, bytesToCopy>>
    /\ IF remainingBytes = 0
       THEN cpc' = "idle" /\ captured' = bytesRead /\ UNCHANGED packet
       ELSE \E shr \in {"S_OK", "E_FAIL"}, ghr \in {"S_OK", "E_FAIL"},
               stop \in BOOLEAN :
            IF shr # "S_OK" \/ ghr # "S_OK"
            THEN cpc' = "idle" /\ captured' = -1 /\ UNCHANGED packet
            ELSE IF captureQueue = <<>>
            THEN \* AUDCLNT_S_BUFFER_EMPTY: wait, then break or continue
                 IF stop
                 THEN cpc' = "idle" /\ captured' = bytesRead /\ UNCHANGED packet
                 ELSE UNCHANGED <<cpc, captured, packet>>
            ELSE /\ packet' = Head(captureQueue)
                 /\ cpc' = "copy"
                 /\ UNCHANGED captured

\* bytesToCopy, the copy or the zero-fill, and the counters
RD_Copy ==
    /\ cpc = "copy"
    /\ LET packetBytes == packet.packetLength * FrameSize
           n == BytesToCopy(remainingBytes, packetBytes)
       IN  /\ bytesToCopy' = n
           /\ dest' = [j \in 1..Len(dest) |->
                         IF j > destOffset /\ j <= destOffset + n
                         THEN Filled(packet, j - destOffset)
                         ELSE dest[j]]
           /\ destOffset' = destOffset + n
           /\ remainingBytes' = remainingBytes - n
           /\ bytesRead' = bytesRead + n
    /\ cpc' = "release"
    /\ UNCHANGED <<captureRest, captureQueue, produced, packet, captured>>

\* captureClient->ReleaseBuffer(packetLength): the whole packet leaves the
\* endpoint buffer; on a failure the loop is left and the count returned
RD_Release ==
    /\ cpc = "release"
    /\ packet' = Null
    /\ \E hr \in {"S_OK", "E_FAIL"} :
          IF hr = "S_OK"
          THEN /\ captureQueue' = Tail(captureQueue)
               /\ cpc' = "loop"
               /\ UNCHANGED captured
          ELSE /\ cpc' = "idle"
               /\ captured' = bytesRead
               /\ UNCHANGED captureQueue
    /\ UNCHANGED <<captureRest, produced, dest, destOffset, remainingBytes,
                   bytesRead, bytesToCopy>>

\* nAvailable of the input: GetBuffer, ReleaseBuffer(packetLength), and the
\* size of the packet in bytes
CP_Available ==
    /\ cpc = "idle"
    /\ \E ghr \in {"S_OK", "E_FAIL"} :
          IF ghr # "S_OK"
          THEN captured' = -1 /\ UNCHANGED captureQueue
          ELSE IF captureQueue = <<>>
          THEN captured' = 0 /\ UNCHANGED captureQueue
          ELSE /\ captured' = Head(captureQueue).packetLength * FrameSize
               /\ captureQueue' = Tail(captureQueue)
    /\ UNCHANGED <<captureRest, cpc, produced, packet, dest, destOffset,
                   remainingBytes, bytesRead, bytesToCopy>>

CaptureNext ==
    \/ CP_Capture \/ RD_Begin \/ RD_GetBuffer \/ RD_Copy \/ RD_Release
    \/ CP_Available

CaptureSpec == Init /\ [][CaptureNext]_vars

(***************************************************************************)
(* Properties.                                                             *)
(***************************************************************************)
\* the owner thread is at a wait of write, read or drain
WaitPcs == {"w_wait", "r_wait", "d_wait"}

\* the owner thread has left a wait through the stop-event branch
StoppedPcs == {"w_stopped", "r_stopped", "d_stopped"}

\* the owner thread is not inside a call
OwnerReturned == pc \in {"idle", "crashed"}

\* C1: every blocking wait is interruptible by stop-requested: once the
\* stop event is signaled while write, read or drain is at its wait, the
\* call eventually returns -- also when the buffer-ready event is signaled
\* and the stream no longer moves frames.  (Stated for calls with offset 0,
\* whose every acquisition makes progress.)
C1_WaitInterruptible ==
    (stopEvent /\ pc \in WaitPcs /\ wOff = 0) ~> OwnerReturned

\* C2: a write during which stop-requested was raised while frames were
\* still uncommitted, and which returns a count, returns a count strictly
\* below the requested length, equal to the bytes of the frames committed,
\* with no exception pending.
C2_InterruptedWriteIsPartial ==
    [][(/\ lastOp = "write"
        /\ raisedInCall
        /\ pc # "idle" /\ pc' = "idle"
        /\ ret' # -1)
       => (/\ err' = "none"
           /\ ret' < wLen
           /\ ret' = framesWritten * bytesPerFrame)]_vars

\* C3: a write or read that leaves its wait because a device-change
\* notification raised stop-requested during the call ends with
\* DeviceInvalidated pending.
C3_NotifyStopIsDeviceInvalidated ==
    [][(/\ pc \in {"w_stopped", "r_stopped"}
        /\ raisedInCall
        /\ stopBy = "notify"
        /\ pc' = "idle")
       => err' = "DeviceInvalidated"]_vars

\* C4: close() on a session that was already closed changes no state of
\* the session, makes no platform call and leaves no exception pending.
C4_CloseIdempotent ==
    [][(nCloses >= 1 /\ nClose)
       => (/\ UNCHANGED <<resVars, streamVars, envVars, uaf>>
           /\ calls' = <<>>
           /\ err' = "none")]_vars

\* a second close() has returned on a session that had been fully opened
C4_Witness ==
    /\ nCloses = 2
    /\ lastOp = "close"
    /\ ctxPtr = 0
    /\ bufferFrameCount = BufFrames
    /\ overFreed = {}
    /\ ~uaf
    /\ calls = <<>>

\* C5: after an open that failed, at whichever step, nothing it acquired is
\* still held: no context, no platform resource, no registration.
C5_FailedOpenReleasesAll ==
    (lastOp = "open" /\ err # "none")
        => (~ctxAlive /\ live = {} /\ ~registered)

\* C6: the notifier is registered only while its context exists and the
\* enumerator it was registered on is unreleased, so no callback reaches a
\* destroyed context.
C6_UnregisteredBeforeEnumeratorReleased ==
    registered => (ctxAlive /\ "enumerator" \in live)

\* C7: every GetBuffer of write and of stop's flush is issued while no
\* region of the endpoint buffer is acquired and unreleased.
C7_OneRegionInFlight ==
    [][(S_GetBuffer \/ W_GetBuffer) => held = "none"]_vars

\* C8: on an open output session available() + padding = bufferFrameCount,
\* and what a write requests from GetBuffer, and then copies and commits,
\* is at most the frames that were free at its padding query and at most the
\* frames the call still has to write.
C8_Backpressure ==
    (kind = "output" /\ Opened) =>
        /\ AvailableOut(bufferFrameCount, padding) + padding = bufferFrameCount
        /\ pc \in {"w_getbuf", "w_rel"} =>
              /\ framesToWrite <= availableFrames
              /\ framesToWrite <= (wLen \div bytesPerFrame) - framesWritten
        /\ pc = "w_rel" =>
              /\ ClampToMax(framesToWrite, wLen, wOff, bytesPerFrame)
                    <= availableFrames
              /\ padding + ClampToMax(framesToWrite, wLen, wOff, bytesPerFrame)
                    <= bufferFrameCount

\* a write holds a region whose size the free frames, not the remaining
\* frames, decided
C8_Witness ==
    /\ kind = "output"
    /\ pc = "w_rel"
    /\ framesToWrite = 1
    /\ availableFrames = 1
    /\ (wLen \div bytesPerFrame) - framesWritten = 2

\* C9: stop-requested stays signaled once set, and a wait entered after it
\* was set is left through the stop-event branch.  (Stated for the waits of
\* calls during which stop-requested was not raised: it was set before.)
C9_StopLevelTriggered ==
    [][/\ (stopEvent /\ Opened /\ ~nClose) => stopEvent'
       /\ (/\ pc \in WaitPcs
           /\ stopEvent
           /\ ~raisedInCall
           /\ pc' # pc)
          => pc' \in StoppedPcs]_vars

\* C10: close() on a running session raises stop-requested and stops the
\* stream before its first release.
C10_CloseStopsFirst ==
    [][(nClose /\ Opened /\ running)
       => \E i \in 1..Len(calls') :
             /\ calls'[i] = "Stop"
             /\ \A j \in 1..(i - 1) : calls'[j] \notin Res \cup {"delete"}]_vars

\* C11: when IsFormatSupported answers "not supported" with a closest match,
\* the open goes on with the closest match and drops the request: the
\* closest match is the context's format, bytesPerFrame is its nBlockAlign,
\* and the AudioFormat the open returns carries the closest match's sample
\* rate, bits, channels and encoding.
C11_ClosestAdopted ==
    (hrFormat = "S_FALSE" /\ closestFormat # Null) =>
        /\ format = closestFormat
        /\ (fpc \in {"stored", "opened"}) =>
               bytesPerFrame = closestFormat.nBlockAlign
        /\ (fpc = "opened") =>
            /\ result.sampleRate = closestFormat.nSamplesPerSec
            /\ result.bits = closestFormat.wBitsPerSample
            /\ result.channels = closestFormat.nChannels
            /\ (result.encoding = "PCM_FLOAT")
                   <=> (closestFormat.SubFormat = "IEEE_FLOAT")

\* an open that adopted a closest match differing from the request in
\* sample rate, bits and encoding has returned
C11_Witness ==
    /\ fpc = "opened"
    /\ hrFormat = "S_FALSE"
    /\ result.sampleRate # request.sampleRate
    /\ result.bits # request.bits
    /\ result.encoding # request.encoding

\* C12: an open whose little-endian request the device reports as directly
\* supported returns the request unchanged: the same sample rate, bits,
\* channels and encoding.
C12_FormatRoundTrip ==
    (fpc = "opened" /\ hrFormat = "S_OK" /\ ~request.bigEndian) =>
        /\ result.sampleRate = request.sampleRate
        /\ result.bits = request.bits
        /\ result.channels = request.channels
        /\ result.encoding = request.encoding

\* C20: the open turns the requested bytes into frames by dividing by the
\* frame size of the negotiated format (the closest match when one was
\* adopted, the converted request otherwise), rounding down; and
\* getBufferSize() on the opened session returns the frame count the
\* platform reported from GetBufferSize, whatever was requested.
C20_BufferSizeInFrames ==
    /\ (fpc \in {"initialized", "stored", "opened"}) =>
        LET frameSize == IF hrFormat = "S_FALSE"
                         THEN closestFormat.nBlockAlign
                         ELSE (request.channels * request.bits) \div 8
        IN  /\ bufferSizeInFrames * frameSize <= bufferSize
            /\ bufferSize < (bufferSizeInFrames + 1) * frameSize
    /\ (lastOp = "getBufferSize" /\ fpc = "opened" /\ hrBufferSize = "S_OK")
           => ret = deviceFrames

\* getBufferSize() has returned on a session opened with an adopted closest
\* match whose frame size differs from the request's, on a platform that
\* reported more frames than were asked for
C20_Witness ==
    /\ lastOp = "getBufferSize"
    /\ fpc = "opened"
    /\ hrFormat = "S_FALSE"
    /\ hrBufferSize = "S_OK"
    /\ bufferSize = 1024
    /\ closestFormat.nBlockAlign # (request.channels * request.bits) \div 8
    /\ ret # bufferSizeInFrames

\* a step of the platform's notification thread inside one of the callbacks
NotifierStep ==
    \/ OnDeviceStateChanged \/ OnDefaultDeviceChanged \/ OnDeviceAdded
    \/ OnDeviceRemoved \/ OnPropertyValueChanged

\* C13: a notification callback changes nothing but the stop-requested
\* signal and the notification queue: the context's interfaces and handles,
\* the buffer metadata (bufferFrameCount, bytesPerFrame), pendingFrames, the
\* endpoint buffer (padding, the region held, the stream's run state, the
\* buffer-ready signal) and the device stay as they were; and it only adds
\* to the queue, it hands no queued message to the logger.
C13_CallbackFrame ==
    [][NotifierStep =>
          /\ UNCHANGED <<resVars, pendingFrames, readyEvent, running,
                         padding, held, envVars>>
          /\ notifierLogs' >= notifierLogs
          /\ (notifierLogs' = notifierLogs) => UNCHANGED stopEvent]_vars

\* a callback has queued a message and raised stop-requested on a live
\* context whose stream holds frames the session wrote
C13_Witness ==
    /\ ctxAlive
    /\ stopBy = "notify"
    /\ stopEvent
    /\ notifierLogs > 0
    /\ pendingFrames > 0
    /\ padding > 0

\* C14: every access to the notification queue is made with the session's
\* log mutex held by the thread that makes it: the notification thread
\* while it appends a message, the owner thread while it pops one or looks
\* whether the queue is empty; for output sessions and for input sessions.
C14_QueueUnderLogMutex ==
    /\ (npc = "push") => logMutex = "notifier"
    /\ (lpc = "pop") => logMutex = "owner"

\* C15: a write that ends because the device answered a poll with the
\* "invalidated" status fails with DeviceInvalidated.  (Stated for the two
\* polls after the padding query: with the client invalidated, the buffer
\* acquire and the buffer release answer AUDCLNT_E_DEVICE_INVALIDATED.)
C15_InvalidatedIsDeviceInvalidated ==
    [][(/\ pc \in {"w_getbuf", "w_rel"}
        /\ invalidated
        /\ pc' = "idle")
          => err' = "DeviceInvalidated"]_vars

\* C16: a write or a read that a failed platform call ends never returns
\* the failure value with no error raised.
C16_NoSilentSentinel ==
    [][(/\ lastOp \in {"write", "read"}
        /\ pc \notin {"idle", "crashed"}
        /\ pc' = "idle"
        /\ ret' = -1)
          => err' # "none"]_vars

\* C17: when the state query at the top of an iteration of write succeeds
\* and reports a state other than active, the write ends there with
\* DeviceInactive, and the notification queue has been emptied into the
\* logger by then.
C17_InactiveAfterLogs ==
    [][(/\ \E phr \in {"S_OK", "E_FAIL", "AUDCLNT_E_DEVICE_INVALIDATED"} :
               W_LoopWith("S_OK", phr)
        /\ framesWritten < wLen \div bytesPerFrame
        /\ devState # "active")
          => /\ pc' = "idle"
             /\ ret' = -1
             /\ err' = "DeviceInactive"
             /\ notifierLogs' = 0]_vars

\* a write has failed with DeviceInactive on a device a notification
\* reported gone (the callback queued its messages and raised
\* stop-requested), with nothing left in the queue
C17_Witness ==
    /\ lastOp = "write"
    /\ pc = "idle"
    /\ err = "DeviceInactive"
    /\ ret = -1
    /\ devState # "active"
    /\ stopBy = "notify"
    /\ notifierLogs = 0

\* C18: a drain that starts after stop() (stop-requested was raised before
\* the drain, no error is raised) returns only with the padding at zero.
C18_DrainUntilEmpty ==
    [][(/\ lastOp = "drain"
        /\ pc = "d_stopped"
        /\ ~raisedInCall
        /\ stopBy = "stop"
        /\ pc' = "idle")
          => padding = 0]_vars

\* C19: stop() on either kind of session raises stop-requested first, then
\* asks the device to stop, then flushes the endpoint buffer, also when the
\* device-stop request failed; on a session that is not open it changes
\* nothing.
C19_StopOrder ==
    [][/\ (spc = "idle" /\ spc' # "idle") => (spc' = "s_stop" /\ stopEvent')
       /\ (spc = "s_stop" /\ spc' # "s_stop")
              => (stopEvent /\ ~running' /\ spc' = "s_getbuf")
       /\ (S_Begin /\ ctxPtr = 0) => UNCHANGED vars]_vars

C22_BigEndianRejected ==
    (request # Null /\ request.bigEndian) =>
        /\ fpc \notin {"converted", "negotiated", "initialized", "stored",
                       "opened", "is_activated"}
        /\ hrFormat = "none"

\* C23: the array nGetAllPorts returns has the ports of the render
\* collection first and the ports of the capture collection after them,
\* each collection in its enumeration order: the port at position k comes
\* from the k-th render endpoint, the port at position renderCount + k from
\* the k-th capture endpoint, and a position stays empty only where the
\* endpoint gave no port.
C23_OutputsThenInputs ==
    (gpc = "done") =>
        /\ Len(portArray) = Len(renderDevices) + Len(captureDevices)
        /\ \A k \in 1..Len(renderDevices) :
            IF portArray[k] = Null THEN ~renderDevices[k].propsOk
            ELSE /\ portArray[k].flow = "eRender"
                 /\ portArray[k].handle = renderDevices[k].id
        /\ \A k \in 1..Len(captureDevices) :
            LET port == portArray[Len(renderDevices) + k] IN
            IF port = Null THEN ~captureDevices[k].propsOk
            ELSE /\ port.flow = "eCapture"
                 /\ port.handle = captureDevices[k].id

\* an array of two output ports followed by two input ports was returned
C23_Witness ==
    /\ gpc = "done"
    /\ Len(renderDevices) = 2
    /\ Len(captureDevices) = 2
    /\ \A k \in 1..4 : portArray[k] # Null
    /\ portArray[2].handle = 2
    /\ portArray[4].handle = 2

\* C24: an endpoint whose property store cannot be opened is skipped: the
\* returned array has no empty element and no exception is pending.
C24_FailedEndpointSkipped ==
    (gpc = "done") =>
        /\ \A k \in 1..Len(portArray) : portArray[k] # Null
        /\ ~exceptionPending

\* C25: every port of the returned array is the port of an endpoint in the
\* active state.
C25_ActiveOnly ==
    (gpc = "done") =>
        \A k \in 1..Len(portArray) :
            portArray[k] # Null => portArray[k].isActive

\* C26: available() of an output returns bufferFrameCount - padding when
\* that 32-bit unsigned difference is at most INT_MAX and -1 when it is
\* larger, as it is after a wrap-around with padding > bufferFrameCount;
\* with no frame free it returns 0, not a negative value.
C26_AvailableOrOverflow ==
    (apc = "done" /\ hrPadding = "S_OK") =>
        LET difference == UINT32_Sub(frameCount32, padding32)
        IN  /\ UINT32_Add(padding32, difference) = frameCount32
            /\ ~UINT32_Gt(difference, INT_MAX) =>
                  /\ available >= 0
                  /\ UINT32_Of(available) = difference
            /\ UINT32_Gt(difference, INT_MAX) => available = -1
            /\ (/\ UINT32_Gt(padding32, frameCount32)
                /\ ~UINT32_Gt(padding32, INT_MAX)) => available = -1
            /\ padding32 = frameCount32 => available = 0

C26_Witness ==
    /\ apc = "done" /\ hrPadding = "S_OK"
    /\ frameCount32 = UINT32_Of(1)
    /\ padding32 = UINT32_Of(2)
    /\ available = -1

\* the resources of a session in the order nOpen acquires them
AcquisitionOrder ==
    <<"device", "client", "render", "clock", "evReady", "evStop",
      "enumerator", "notifier">>

\* position of the first release of r in a sequence of release calls, 0 if
\* r is not released
FirstRelease(seq, r) ==
    IF \E k \in 1..Len(seq) : seq[k] = r
    THEN CHOOSE k \in 1..Len(seq) :
            seq[k] = r /\ \A l \in 1..(k - 1) : seq[l] # r
    ELSE 0

\* of two resources that are both released, the later acquired goes first
InReverseOfAcquisition(seq) ==
    \A a, b \in 1..Len(AcquisitionOrder) :
        (/\ a < b
         /\ FirstRelease(seq, AcquisitionOrder[a]) # 0
         /\ FirstRelease(seq, AcquisitionOrder[b]) # 0)
            => FirstRelease(seq, AcquisitionOrder[b])
                   < FirstRelease(seq, AcquisitionOrder[a])

\* C27: when open fails, every resource acquired so far has been released
\* when the error reaches the caller, and the releases were made in the
\* reverse of the acquisition order.
C27_RollbackInReverseOrder ==
    (lastOp = "open" /\ err # "none") =>
        /\ \A k \in 1..Len(AcquisitionOrder) :
              AcquisitionOrder[k] \in fld
                  => FirstRelease(calls, AcquisitionOrder[k]) # 0
        /\ InReverseOfAcquisition(calls)

\* C28: close() releases the resources of the session in the strict reverse
\* of the order in which open acquired them, in the output and in the input
\* session.
C28_CloseInReverseOrder ==
    (lastOp = "close" /\ calls # <<>> /\ ~uaf) => InReverseOfAcquisition(calls)

\* C29: a notification raises stop-requested exactly when it is a state
\* change to not-present or unplugged, a change of the default device, a
\* removal of a device, or a change of the device-format or the
\* interface-enabled property; an added device, a change to another state
\* and a change of another property leave stop-requested as it was.
C29_StopExactlyOnListed ==
    [][(ctxAlive /\ ~stopEvent) =>
          /\ \A dwNewState \in NewStates :
                OnDeviceStateChangedTo(dwNewState) =>
                    (stopEvent' <=> dwNewState \in {"DEVICE_STATE_NOTPRESENT",
                                                    "DEVICE_STATE_UNPLUGGED"})
          /\ \A flow \in Flows : OnDefaultDeviceChangedOf(flow) => stopEvent'
          /\ OnDeviceAdded => ~stopEvent'
          /\ OnDeviceRemoved => stopEvent'
          /\ \A key \in PropertyKeys :
                OnPropertyValueChangedOf(key) =>
                    (stopEvent' <=> key \in {"PKEY_AudioEngine_DeviceFormat",
                                             "PKEY_DeviceInterface_Enabled"})]_vars

\* a notification has interrupted a running stream: its message and the
\* message of the interruption are queued, stop-requested is set
C29_Witness ==
    /\ ctxAlive /\ running
    /\ stopBy = "notify"
    /\ stopEvent
    /\ notifierLogs = 2

\* the direction of a session as a flow of the platform
SessionFlow(k) == IF k = "output" THEN "eRender" ELSE "eCapture"

\* C30: a change of the default device raises the stop-requested signal of
\* a session only when the flow of the notification is the direction of the
\* session; a change of the default device of the other direction leaves
\* stop-requested unset.
C30_DefaultChangeOfOwnFlow ==
    [][\A flow \in Flows :
          (/\ ctxAlive /\ ~stopEvent
           /\ flow # SessionFlow(kind)
           /\ OnDefaultDeviceChangedOf(flow)) => ~stopEvent']_vars

\* C31: nRead has released every region it acquired when it starts its next
\* iteration or returns, also when it copied no byte from it; for a region
\* flagged silent it stores zeros in the destination range, for another
\* region the region's bytes, and it advances the destination offset and
\* the byte counters by the same amount in both cases.
C31_ReleasedAndZeroFilled ==
    [][/\ cpc' \in {"idle", "loop"} => packet' = Null
       /\ RD_Copy =>
            LET n == Min(remainingBytes,
                         packet.packetLength * FrameSize)
            IN  /\ destOffset' = destOffset + n
                /\ remainingBytes' = remainingBytes - n
                /\ bytesRead' = bytesRead + n
                /\ \A j \in 1..Len(dest) :
                      dest'[j] =
                         IF j > destOffset /\ j <= destOffset + n
                         THEN (IF packet.silent THEN 0
                               ELSE packet.pData[j - destOffset])
                         ELSE dest[j]]_vars

\* a read has zero-filled the last bytes of its destination range from a
\* packet flagged silent and released the packet
C31_Witness ==
    /\ cpc = "loop"
    /\ packet = Null
    /\ bytesRead = FrameSize
    /\ dest[destOffset] = 0
    /\ produced >= 2
    /\ captureQueue = <<>>

\* C37: the frames nRead releases to the device in one acquisition are the
\* frames it copied or zero-filled into the caller's array, so the bytes of
\* a packet that did not fit into the array stay queued for the next read.
C37_ReadConservesFrames ==
    [][(RD_Release /\ captureQueue' # captureQueue) =>
          QueuedBytes(captureQueue') = QueuedBytes(captureQueue) - bytesToCopy]_vars

\* C38: available() of an input session leaves the captured data queued in
\* the endpoint buffer as it is, so a read after it returns the bytes the
\* read would have returned without it.
C38_AvailableIsPureQuery ==
    [][CP_Available =>
          QueuedBytes(captureQueue') = QueuedBytes(captureQueue)]_vars

\* the release calls of the last operation include r
Called(r) == \E k \in 1..Len(calls) : calls[k] = r

\* C32: when the enumerator cannot be created or the callback cannot be
\* registered, open succeeds all the same; the session then has no
\* notification client and no callback is registered on it, and close makes
\* no unregister call and raises no error.
C32_RegistrationFailureTolerated ==
    /\ (Opened /\ "notifier" \notin fld) => (~registered /\ notifierRef = 0)
    /\ (lastOp = "open" /\ err = "none" /\ "notifier" \notin fld)
          => (ctxAlive /\ ctxPtr # 0 /\ ret = 1)
    /\ (lastOp = "close" /\ calls # <<>> /\ ~uaf /\ ~Called("notifier"))
          => (~Called("Unregister") /\ err = "none" /\ ~registered)

\* a session that was opened with its enumerator but without a registered
\* callback has been closed
C32_Witness ==
    /\ lastOp = "close" /\ err = "none"
    /\ Called("enumerator") /\ ~Called("notifier")
    /\ ~Called("Unregister")
    /\ ctxPtr = 0

\* C33: the pending-frames counter of an output session never decreases
\* while the session is open: write adds the frames it commits in each
\* acquisition, and stop, drain and start do not lower it.
C33_PendingFramesMonotonic ==
    [][(kind = "output" /\ Opened /\ Opened')
          => /\ pendingFrames' >= pendingFrames
             /\ W_Release =>
                   pendingFrames' - pendingFrames = padding' - padding]_vars

\* C36: every iteration of the loop of write that acquires a region commits
\* at least one frame, for every offset and length, so that write on an
\* active device that keeps playing returns after finitely many iterations.
C36_WriteMakesProgress ==
    [][(W_Release /\ ~invalidated) => framesWritten' > framesWritten]_vars

\* C34: no resource is released more than once: on every path through the
\* rollback of open, close and the destructor of the context, each of the
\* device, the client, the render or capture interface, the clock, the
\* format block, the two events, the enumerator and the session's reference
\* to the notifier is released at most one time.
C34_ReleasedAtMostOnce ==
    \A r \in Res :
        Cardinality({k \in 1..Len(calls) : calls[k] = r}) <= 1

\* C35: after a failed open, whatever the step that failed, the context
\* handle of the host object is zero, so it never refers to the context the
\* rollback destroyed and the next call takes the not-opened path.
C35_HandleZeroAfterFailedOpen ==
    (lastOp = "open" /\ err # "none") => ctxPtr = 0

\* the operations of the claim on a session: write, read, available, the
\* four queries, drain, start and stop
LaterOperation ==
    \/ W_Begin \/ R_Begin \/ nAvailable \/ nQuery \/ D_Begin \/ nStart
    \/ S_Begin

\* the value an operation returns on a session that is not open
FailureValue(op) ==
    IF op \in {"write", "read", "available", "getBufferSize",
               "getFramePosition", "getMicrosecondLatency"}
    THEN -1 ELSE 0

\* C39: after a successful close the context handle of the host object is
\* zero, and every later write, read, available, getBufferSize,
\* getFramePosition, getMicrosecondLatency, drain, start, stop and
\* getCurrentPort returns its failure value or does nothing, and touches no
\* released resource.
C39_ClosedSessionRejectsCalls ==
    /\ [](lastOp = "close" => ctxPtr = 0)
    /\ [][(nCloses >= 1 /\ ctxPtr = 0 /\ LaterOperation)
            => /\ UNCHANGED <<resVars, streamVars, envVars, pc, spc, calls,
                              ghostVars>>
               /\ ret' = FailureValue(lastOp') \/ UNCHANGED resultVars
               \* drain of an input is unsupported in every state
               /\ \/ err' = "none"
                  \/ err' = "UnsupportedOperation" /\ lastOp' = "drain"
                                                   /\ kind = "input"
                  \/ UNCHANGED resultVars]_vars

\* a query has returned its failure value on a session that was opened and
\* closed
C39_Witness ==
    /\ nCloses >= 1
    /\ ctxPtr = 0
    /\ lastOp = "getFramePosition"
    /\ ret = -1
    /\ ~uaf
    /\ bufferFrameCount = BufFrames

\* C40: the reference count of the notifier balances: once close has
\* unregistered the callback and dropped the session's reference, the count
\* is zero and the notifier is destroyed; a notifier whose registration
\* failed is destroyed during open.
C40_NotifierRefsBalance ==
    /\ (lastOp = "close" /\ ~uaf /\ Called("Unregister"))
          => (notifierRef = 0 /\ "notifier" \notin live)
    /\ (lastOp = "open" /\ ~registered)
          => (notifierRef = 0 /\ "notifier" \notin live)

====
